---- MODULE Spec2Model ----
(***************************************************************************)
(* Qualification parsing, summarising and record building of the           *)
(* procurement pipeline (src/dags/preprocessor.py).                        *)
(*                                                                         *)
(* Text is a sequence of characters.  Every character of the source's      *)
(* patterns, tables and of the sample inputs is one short ASCII name (its  *)
(* reading), e.g. "shi","kaku" for 資格; the blank characters are " ",     *)
(* "\t", "\n" and "IDSP" (U+3000, the full-width space).                   *)
(* Python's None is None == <<>> for an optional text (Some(x) == <<x>>)   *)
(* and the code "None" for an optional normalized code; a confidence is    *)
(* written in hundredths (0.95 is 95).                                     *)
(***************************************************************************)
EXTENDS Integers, Sequences, FiniteSets, TLC

VARIABLES
    pc,              \* position in the row loop of process_csv_data / which operation has run
    cell,            \* the row's 入札資格 cell: [na |-> it is NaN, s |-> its text]
    qualifications,  \* list returned by extract_qualifications
    summary,         \* Option of the dict returned by get_qualification_summary
    record,          \* Option of processed_data (the fields modelled)
    saved,           \* Option of the bidding_cases columns written by upsert_bidding_case
    line,            \* argument of parse_qualification_line
    line_num,        \* argument of parse_qualification_line
    parsed,          \* Option of the dict returned by parse_qualification_line
    input,           \* argument of a DataNormalizer method: [na |-> it is None/NaN, s |-> its text]
    result,          \* Option of the value returned by the DataNormalizer method
    row,             \* the CSV row of which the output record is built: column |-> cell
    built,           \* the records built of row, one per run of the record-building step
    batch,           \* the rows of the CSV file given to process_csv_data
    row_i,           \* index in batch of the row the loop is at
    db,              \* bidding_cases: the saved columns of every case id in the table
    outcome,         \* what the loop did with each row it has been through, in order
    aborted,         \* the exception that left process_csv_data, if any
    stats,           \* the stats dict of BiddingDataManager.process_csv_data
    tables,          \* the tables the QualificationParser and DataNormalizer objects hold
    hashseed,        \* the hash seed of the process, which fixes the order of list(set(...))
    queue,           \* the rows each worker has still to process
    outputs,         \* what each worker has produced, in order: [row, out]
    last_call,       \* the last call of a repository or service method: its arguments and result
    extracted,       \* the case ids for which update_llm_extraction has returned True
    calls,           \* the concurrent upsert_bidding_case calls: position, locals, result
    cookies,         \* NJSSAuthenticationService.cookies
    page_url,        \* page.url of the browser page given to login
    context_cookies, \* the cookies the page's browser context reports
    cases,           \* the list of cases a batch run has selected
    attempted,       \* the case ids a batch run has called the LLM for
    read_verdict,    \* is_eligible_to_bid of each case as the inference run read it
    bidding_cases    \* the rows of table bidding_cases, as the repository reads and writes them

\* the variables of the record-building and batch specifications
buildVars == <<row, built, batch, row_i, db, outcome, aborted>>

\* the variables of the repository, service and worker specifications
repoVars ==
    <<tables, hashseed, queue, outputs, last_call, extracted, calls, cookies, page_url,
      context_cookies, cases, attempted, read_verdict, bidding_cases>>

laterVars == <<stats, repoVars>>

otherVars == <<input, result, buildVars, laterVars>>

vars == <<pc, cell, qualifications, summary, record, saved, line, line_num, parsed, otherVars>>

None == <<>>
Some(x) == <<x>>

----------------------------------------------------------------------------
(* Characters and strings *)

\* Python's \s for str patterns and str.strip(): Unicode whitespace
IsSpace(c) == c \in {" ", "\t", "\n", "IDSP"}

\* '.' without re.DOTALL: anything but a line break
NoNewline(s, a, b) == \A x \in a..b : s[x] # "\n"

\* lit occurs in s at position i
LitAt(lit, s, i) ==
    /\ i >= 1
    /\ i + Len(lit) - 1 <= Len(s)
    /\ SubSeq(s, i, i + Len(lit) - 1) = lit

\* `lit in s` / re.search of a literal
Contains(s, lit) == \E i \in 1..Len(s) : LitAt(lit, s, i)

Min(S) == CHOOSE x \in S : \A y \in S : x <= y

RECURSIVE LStrip(_)
LStrip(s) == IF s # <<>> /\ IsSpace(Head(s)) THEN LStrip(Tail(s)) ELSE s

RECURSIVE RStrip(_)
RStrip(s) ==
    IF s # <<>> /\ IsSpace(s[Len(s)]) THEN RStrip(SubSeq(s, 1, Len(s) - 1)) ELSE s

\* str.strip()
Strip(s) == LStrip(RStrip(s))

\* str.replace('　', ' ')
ReplaceIdsp(s) == [i \in 1..Len(s) |-> IF s[i] = "IDSP" THEN " " ELSE s[i]]

\* re.sub(r'\s+', ' ', s): every maximal run of whitespace becomes one space
RECURSIVE CollapseSpace(_)
CollapseSpace(s) ==
    IF s = <<>> THEN <<>>
    ELSE IF IsSpace(Head(s))
         THEN <<" ">> \o CollapseSpace(LStrip(s))
         ELSE <<Head(s)>> \o CollapseSpace(Tail(s))

\* str.split('\n'): the pieces between line breaks, empty pieces kept
RECURSIVE SplitLines(_)
SplitLines(s) ==
    IF \A i \in 1..Len(s) : s[i] # "\n" THEN <<s>>
    ELSE LET k == Min({i \in 1..Len(s) : s[i] = "\n"})
         IN <<SubSeq(s, 1, k - 1)>> \o SplitLines(SubSeq(s, k + 1, Len(s)))

----------------------------------------------------------------------------
(* QualificationParser: tables *)

\* self.qualification_patterns.  A pattern (org1|org2|...) .*? key1 .*? key2 <tail>
\* is kept as its organisation suffixes (each preceded by .+? in the source)
\* and its key literals (each preceded by .*? in the source).
qualification_patterns ==
    [ unified_qualification |->      \* 全省庁統一資格\s+([^\s]+)\s+(level)
        <<"zen", "shou", "chou", "tou", "itsu", "shi", "kaku">>,
      regional_bureau |->            \* (.+?開発局|.+?地方整備局).*?競争入札参加資格 + tail
        [ org  |-> << <<"kai", "hatsu", "kyoku">>, <<"chi", "hou", "sei", "bi", "kyoku">> >>,
          keys |-> << <<"kyou", "sou", "nyuu", "satsu", "san", "ka", "shi", "kaku">> >> ],
      local_government |->           \* (.+?県|.+?都|.+?府|.+?市|.+?町|.+?村).*?入札参加資格 + tail
        [ org  |-> << <<"ken">>, <<"to">>, <<"fu2">>, <<"shi2">>, <<"machi">>, <<"mura">> >>,
          keys |-> << <<"nyuu", "satsu", "san", "ka", "shi", "kaku">> >> ],
      ministry_qualification |->     \* (.+?省|.+?庁).*?競争.*?参加資格 + tail
        [ org  |-> << <<"shou">>, <<"chou">> >>,
          keys |-> << <<"kyou", "sou">>, <<"san", "ka", "shi", "kaku">> >> ],
      no_qualification |->           \* 資格不要
        <<"shi", "kaku", "fu", "you">>,
      industry_specific |->          \* (.+?協会|.+?組合|.+?連盟).*?資格
        [ org  |-> << <<"kyou2", "kai2">>, <<"kumi", "ai">>, <<"ren", "mei">> >>,
          keys |-> << <<"shi", "kaku">> >> ] ]

\* the level alternation of the patterns: ([ABCD]|ランク無し|ランク不明)
LevelTokens ==
    << <<"A">>, <<"B">>, <<"C">>, <<"D">>,
       <<"RA", "N", "KU", "na", "si">>, <<"RA", "N", "KU", "fu", "mei2">> >>

\* self.category_mapping, as (key, code) pairs
category_mapping ==
    { << <<"butsu", "hin", "no", "sei2", "zou", "dot", "han", "bai", "dot", "kai3", "uke", "kei">>,
         "manufacturing_sales" >>,            \* 物品の製造・販売・買受系
      << <<"butsu", "hin", "no", "sei2", "zou", "dot", "han", "bai", "dot", "kai3", "uke", "ke", "kei">>,
         "manufacturing_sales" >>,            \* 物品の製造・販売・買受け系
      << <<"butsu", "hin", "no", "sei2", "zou">>, "manufacturing" >>,       \* 物品の製造
      << <<"butsu", "hin", "no", "han", "bai">>, "sales" >>,                \* 物品の販売
      << <<"butsu", "hin", "no", "kai3", "uke", "ke">>, "procurement" >>,   \* 物品の買受け
      << <<"eki", "mu", "no", "tei", "kyou3", "kei">>, "service_provision" >>,  \* 役務の提供系
      << <<"eki", "mu", "no", "tei", "kyou3">>, "service_provision" >>,     \* 役務の提供
      << <<"ken2", "setsu", "kou", "ji">>, "construction" >>,               \* 建設工事
      << <<"ken2", "setsu", "kan", "ren", "gyou", "mu">>, "construction_related" >>,  \* 建設関連業務
      << <<"KO", "N", "SA", "RU", "TA", "N", "TO">>, "consulting" >>,       \* コンサルタント
      << <<"setsu", "kei2">>, "design" >>,                                  \* 設計
      << <<"chou2", "sa">>, "research" >>,                                  \* 調査
      << <<"soku", "ryou">>, "surveying" >>,                                \* 測量
      << <<"shu", "rui", "fu", "mei2">>, "unknown_category" >> }            \* 種類不明

\* self.level_mapping, as (key, code) pairs
level_mapping ==
    { << <<"A">>, "level_a" >>,
      << <<"B">>, "level_b" >>,
      << <<"C">>, "level_c" >>,
      << <<"D">>, "level_d" >>,
      << <<"RA", "N", "KU", "na", "si">>, "no_rank" >>,         \* ランク無し
      << <<"RA", "N", "KU", "fu", "mei2">>, "unknown_rank" >> } \* ランク不明

\* dict.get(key, default)
MapGet(m, key, default) ==
    IF \E e \in m : e[1] = key THEN (CHOOSE e \in m : e[1] = key)[2] ELSE default

----------------------------------------------------------------------------
(* QualificationParser: matching.  A match is Some(groups), no match None. *)

\* \s+([^\s]+)\s+([ABCD]|ランク無し|ランク不明) matched at position p.
\* \s and [^\s] are complementary, so the only way to match is: the whole run
\* of blanks at p, the whole run of non-blanks after it, the whole run of
\* blanks after that, then a level token (first alternative that fits).
LevelTail(s, p) ==
    LET n == Len(s)
        RunEnd(a, blank) ==      \* first position >= a whose blankness differs, or n + 1
            IF \E x \in a..n : IsSpace(s[x]) # blank
            THEN Min({x \in a..n : IsSpace(s[x]) # blank}) ELSE n + 1
        a == RunEnd(p, TRUE)
        b == RunEnd(a, FALSE)
        c == RunEnd(b, TRUE)
        fits == {t \in 1..Len(LevelTokens) : LitAt(LevelTokens[t], s, c)}
    IN IF p <= n /\ a > p /\ b > a /\ c > b /\ fits # {}
       THEN Some([category |-> SubSeq(s, a, b - 1), level |-> LevelTokens[Min(fits)]])
       ELSE None

\* re.search of 全省庁統一資格 + tail: the leftmost occurrence that matches
MatchUnified(s) ==
    LET lit == qualification_patterns.unified_qualification
        at == {i \in 1..Len(s) : LitAt(lit, s, i) /\ LevelTail(s, i + Len(lit)) # None}
    IN IF at = {} THEN None ELSE LevelTail(s, Min(at) + Len(lit))

\* positions reachable after .*?key1 .*?key2 ... matched from position p
RECURSIVE ChainEnds(_, _, _)
ChainEnds(s, p, keys) ==
    IF keys = <<>> THEN {p}
    ELSE UNION { ChainEnds(s, k + Len(Head(keys)), Tail(keys)) :
                   k \in {k \in p..Len(s) : LitAt(Head(keys), s, k) /\ NoNewline(s, p, k - 1)} }

\* re.search of (.+?org1|.+?org2|...) .*?keys [tail], in the order in which
\* the backtracking matcher finds its first match: leftmost start, then the
\* first alternative, then its nearest occurrence, then the nearest keys.
MatchOrg(s, pat, withTail) ==
    LET Ends(e) == {f \in ChainEnds(s, e, pat.keys) : withTail => LevelTail(s, f) # None}
        LineStart(j) ==      \* leftmost start from which .+? can reach position j
            IF \E x \in 1..(j - 1) : s[x] = "\n"
            THEN 1 + CHOOSE x \in 1..(j - 1) : s[x] = "\n" /\ NoNewline(s, x + 1, j - 1)
            ELSE 1
        cands == { c \in (1..Len(pat.org)) \X (2..Len(s)) :
                     /\ LitAt(pat.org[c[1]], s, c[2])
                     /\ LineStart(c[2]) < c[2]
                     /\ Ends(c[2] + Len(pat.org[c[1]])) # {} }
    IN IF cands = {} THEN None
       ELSE LET i == Min({LineStart(c[2]) : c \in cands})
                here == {c \in cands : LineStart(c[2]) <= i}
                alt == Min({c[1] : c \in here})
                j == Min({c[2] : c \in {d \in here : d[1] = alt}})
                e == j + Len(pat.org[alt])
                f == Min(Ends(e))
            IN Some([ organization |-> SubSeq(s, i, e - 1),
                      tail |-> IF withTail THEN LevelTail(s, f) ELSE None ])

----------------------------------------------------------------------------
(* QualificationParser: operations *)

\* LevelledRequirement with the confidence lowered when the category is not in
\* the table
LevelledRequirementPenalised(type, organization, tail, l, n, confidence) ==
    [ type |-> type,
      organization |-> Some(organization),
      category |-> Some(Strip(tail.category)),
      category_normalized |-> MapGet(category_mapping, Strip(tail.category), "other"),
      level |-> Some(Strip(tail.level)),
      level_normalized |-> MapGet(level_mapping, Strip(tail.level), "unknown"),
      raw_text |-> l,
      line_number |-> n,
      confidence |-> IF \E e \in category_mapping : e[1] = Strip(tail.category)
                     THEN confidence ELSE confidence - 20 ]

\* the dict built by the three category-and-level branches
LevelledRequirement(type, organization, tail, l, n, confidence) ==
    [ type |-> type,
      organization |-> Some(organization),
      category |-> Some(Strip(tail.category)),
      category_normalized |-> MapGet(category_mapping, Strip(tail.category), "other"),
      level |-> Some(Strip(tail.level)),
      level_normalized |-> MapGet(level_mapping, Strip(tail.level), "unknown"),
      raw_text |-> l,
      line_number |-> n,
      confidence |-> confidence ]

\* the dict of the 資格不要 branch
NoQualificationRequirement(l, n) ==
    [ type |-> "no_qualification_required",
      organization |-> None,
      category |-> None,
      category_normalized |-> "None",
      level |-> None,
      level_normalized |-> "None",
      raw_text |-> l,
      line_number |-> n,
      confidence |-> 100 ]

\* the dict of the industry-association branch
IndustryRequirement(organization, l, n) ==
    [ type |-> "industry_specific_qualification",
      organization |-> Some(organization),
      category |-> None,
      category_normalized |-> "industry_specific",
      level |-> None,
      level_normalized |-> "None",
      raw_text |-> l,
      line_number |-> n,
      confidence |-> 70 ]

\* UnknownRequirement with the level defaulted like an unrecognized level token
UnknownRequirementLevelled(l, n) ==
    [ type |-> "unknown_qualification",
      organization |-> None,
      category |-> None,
      category_normalized |-> "unknown",
      level |-> None,
      level_normalized |-> "unknown",
      raw_text |-> l,
      line_number |-> n,
      confidence |-> 10 ]

\* the dict returned when no pattern matches
UnknownRequirement(l, n) ==
    [ type |-> "unknown_qualification",
      organization |-> None,
      category |-> None,
      category_normalized |-> "unknown",
      level |-> None,
      level_normalized |-> "None",
      raw_text |-> l,
      line_number |-> n,
      confidence |-> 10 ]

\* re.search of each pattern family on a line
MatchNoQualification(l) == Contains(l, qualification_patterns.no_qualification)
MatchRegional(l) == MatchOrg(l, qualification_patterns.regional_bureau, TRUE)
MatchLocal(l) == MatchOrg(l, qualification_patterns.local_government, TRUE)
MatchMinistry(l) == MatchOrg(l, qualification_patterns.ministry_qualification, TRUE)
MatchIndustry(l) == MatchOrg(l, qualification_patterns.industry_specific, FALSE)

\* parse_qualification_line with the industry-association pattern tried before
\* the unified pattern
parse_qualification_line_industry_first(l, n) ==
    IF MatchNoQualification(l)
    THEN NoQualificationRequirement(l, n)
    ELSE IF MatchIndustry(l) # None
    THEN IndustryRequirement(Strip(MatchIndustry(l)[1].organization), l, n)
    ELSE IF MatchUnified(l) # None
    THEN LevelledRequirement("unified_qualification",
                             qualification_patterns.unified_qualification,
                             MatchUnified(l)[1], l, n, 95)
    ELSE IF MatchRegional(l) # None
    THEN LevelledRequirement("regional_bureau_qualification",
                             Strip(MatchRegional(l)[1].organization),
                             MatchRegional(l)[1].tail[1], l, n, 90)
    ELSE IF MatchLocal(l) # None
    THEN LevelledRequirement("local_government_qualification",
                             Strip(MatchLocal(l)[1].organization),
                             MatchLocal(l)[1].tail[1], l, n, 85)
    ELSE IF MatchMinistry(l) # None
    THEN LevelledRequirement("ministry_qualification",
                             Strip(MatchMinistry(l)[1].organization),
                             MatchMinistry(l)[1].tail[1], l, n, 80)
    ELSE UnknownRequirement(l, n)

parse_qualification_line(l, n) ==
    IF MatchNoQualification(l)
    THEN NoQualificationRequirement(l, n)
    ELSE IF MatchUnified(l) # None
    THEN LevelledRequirement("unified_qualification",
                             qualification_patterns.unified_qualification,
                             MatchUnified(l)[1], l, n, 95)
    ELSE IF MatchRegional(l) # None
    THEN LevelledRequirement("regional_bureau_qualification",
                             Strip(MatchRegional(l)[1].organization),
                             MatchRegional(l)[1].tail[1], l, n, 90)
    ELSE IF MatchLocal(l) # None
    THEN LevelledRequirement("local_government_qualification",
                             Strip(MatchLocal(l)[1].organization),
                             MatchLocal(l)[1].tail[1], l, n, 85)
    ELSE IF MatchMinistry(l) # None
    THEN LevelledRequirement("ministry_qualification",
                             Strip(MatchMinistry(l)[1].organization),
                             MatchMinistry(l)[1].tail[1], l, n, 80)
    ELSE IF MatchIndustry(l) # None
    THEN IndustryRequirement(Strip(MatchIndustry(l)[1].organization), l, n)
    ELSE UnknownRequirement(l, n)

\* `not text or pd.isna(text)` of a cell
Missing(c) == c.na \/ c.s = <<>>

normalize_qualification_text(c) ==
    IF Missing(c) THEN <<>>
    ELSE CollapseSpace(Strip(ReplaceIdsp(c.s)))

\* the loop of extract_qualifications over enumerate(lines, 1), from line n on
RECURSIVE ParseLines(_, _)
ParseLines(lines, n) ==
    IF n > Len(lines) THEN <<>>
    ELSE IF Strip(lines[n]) = <<>> THEN ParseLines(lines, n + 1)
    ELSE <<parse_qualification_line(Strip(lines[n]), n)>> \o ParseLines(lines, n + 1)

extract_qualifications(c) ==
    IF Missing(c) THEN <<>>
    ELSE ParseLines(SplitLines(normalize_qualification_text(c)), 1)

Range(s) == {s[i] : i \in 1..Len(s)}

\* OfType with the unmatched Requirements left out of their group
OfTypeMatchedOnly(quals, type) ==
    SelectSeq(quals, LAMBDA q : q.type = type /\ q.type # "unknown_qualification")

OfType(quals, type) == SelectSeq(quals, LAMBDA q : q.type = type)

\* [q[field] for q in qualifications if q[field] and q[field] != 'unknown']
RECURSIVE RequiredCodeList(_, _)
RequiredCodeList(quals, field) ==
    IF quals = <<>> THEN <<>>
    ELSE (IF Head(quals)[field] # "None" /\ Head(quals)[field] # "unknown"
          THEN <<Head(quals)[field]>> ELSE <<>>) \o RequiredCodeList(Tail(quals), field)

\* ListOfSet without the set(): the codes as collected, repeats kept
ListNoSet(codes) == {codes}

\* list(set(codes)): the elements once each, in whatever order the set enumerates
ListOfSet(codes) ==
    LET S == Range(codes)
    IN {f \in [1..Cardinality(S) -> S] : \A i, j \in 1..Cardinality(S) : f[i] = f[j] => i = j}

\* the dict get_qualification_summary returns for an empty list
EmptySummary ==
    [ total_requirements |-> 0,
      has_no_qualification_required |-> FALSE,
      unified_qualifications |-> <<>>,
      regional_qualifications |-> <<>>,
      local_qualifications |-> <<>>,
      ministry_qualifications |-> <<>>,
      industry_qualifications |-> <<>>,
      unknown_qualifications |-> <<>>,
      required_categories |-> <<>>,
      required_levels |-> <<>> ]

\* FullSummary with the total taken from the six groups
FullSummaryGroupedTotal(quals, catOrder, levelOrder) ==
    [ total_requirements |->
          Len(SelectSeq(quals, LAMBDA q : q.type # "no_qualification_required")),
      has_no_qualification_required |->
          \E i \in 1..Len(quals) : quals[i].type = "no_qualification_required",
      unified_qualifications |-> OfType(quals, "unified_qualification"),
      regional_qualifications |-> OfType(quals, "regional_bureau_qualification"),
      local_qualifications |-> OfType(quals, "local_government_qualification"),
      ministry_qualifications |-> OfType(quals, "ministry_qualification"),
      industry_qualifications |-> OfType(quals, "industry_specific_qualification"),
      unknown_qualifications |-> OfType(quals, "unknown_qualification"),
      required_categories |-> catOrder,
      required_levels |-> levelOrder ]

\* the dict get_qualification_summary returns for a non-empty list
FullSummary(quals, catOrder, levelOrder) ==
    [ total_requirements |-> Len(quals),
      has_no_qualification_required |->
          \E i \in 1..Len(quals) : quals[i].type = "no_qualification_required",
      unified_qualifications |-> OfType(quals, "unified_qualification"),
      regional_qualifications |-> OfType(quals, "regional_bureau_qualification"),
      local_qualifications |-> OfType(quals, "local_government_qualification"),
      ministry_qualifications |-> OfType(quals, "ministry_qualification"),
      industry_qualifications |-> OfType(quals, "industry_specific_qualification"),
      unknown_qualifications |-> OfType(quals, "unknown_qualification"),
      required_categories |-> catOrder,
      required_levels |-> levelOrder ]

\* get_qualification_summary; catOrder and levelOrder are the orders in which
\* list(set(...)) happens to enumerate the two code lists
get_qualification_summary(quals, catOrder, levelOrder) ==
    IF quals = <<>> THEN EmptySummary ELSE FullSummary(quals, catOrder, levelOrder)

----------------------------------------------------------------------------
(* BiddingDataManager.process_csv_data: one row *)

EligibleLevels == {"level_d", "no_rank", "unknown_rank"}
IneligibleLevels == {"level_a", "level_b", "level_c"}

\* a rule-based verdict: no qualification required, else vetoed by any A/B/C
\* level, else eligible by a D / no-rank / rank-unknown level
RuleBasedEligibility(quals, summ) ==
    LET bad == SelectSeq(quals, LAMBDA q : q.level_normalized \in IneligibleLevels)
        good == SelectSeq(quals, LAMBDA q : q.level_normalized \in EligibleLevels)
        Item(q) == [ok |-> q.level_normalized \in EligibleLevels, requirement |-> q]
    IN IF summ.has_no_qualification_required
       THEN [ is_eligible |-> Some(TRUE), reason |-> "no qualification required",
              details |-> <<"no qualification required">> ]
       ELSE IF quals = <<>>
       THEN [ is_eligible |-> Some(FALSE), reason |-> "qualification requirements unknown",
              details |-> <<"no qualification information">> ]
       ELSE IF bad # <<>>
       THEN [ is_eligible |-> Some(FALSE), reason |-> "disqualifying requirements",
              details |-> [i \in 1..Len(bad \o good) |-> Item((bad \o good)[i])] ]
       ELSE IF good # <<>>
       THEN [ is_eligible |-> Some(TRUE), reason |-> "requirements satisfied",
              details |-> [i \in 1..Len(good) |-> Item(good[i])] ]
       ELSE [ is_eligible |-> Some(FALSE), reason |-> "could not parse qualification format",
              details |-> <<"unparsed requirements">> ]

\* the verdict process_csv_data attaches to a row: the parse results are not
\* consulted, the judgement is left to the later LLM stage
\* (reason is the literal 'LLM判定待ち')
eligibility(quals, summ) ==
    [ is_eligible |-> None, reason |-> "LLM hantei machi", details |-> <<>> ]

\* `json.dumps(x) if x else None` of upsert_bidding_case
DumpsOrNone(x) == IF x = <<>> THEN None ELSE Some(x)

\* upsert_columns with the verdict coerced to a boolean
upsert_columns_bool(data) ==
    [ qualifications_raw |-> data.qualifications.requirements_raw,
      qualifications_parsed |-> DumpsOrNone(data.qualifications.requirements_parsed),
      is_eligible_to_bid |-> Some(data.eligibility.is_eligible = Some(TRUE)),
      eligibility_reason |-> data.eligibility.reason,
      eligibility_details |-> DumpsOrNone(data.eligibility.details) ]

\* the columns upsert_bidding_case writes from processed_data (those modelled)
upsert_columns(data) ==
    [ qualifications_raw |-> data.qualifications.requirements_raw,
      qualifications_parsed |-> DumpsOrNone(data.qualifications.requirements_parsed),
      is_eligible_to_bid |-> data.eligibility.is_eligible,
      eligibility_reason |-> data.eligibility.reason,
      eligibility_details |-> DumpsOrNone(data.eligibility.details) ]

----------------------------------------------------------------------------
(* Inputs *)

MaxLines == 2      \* lines per qualification cell
MaxLineNum == 2    \* line numbers passed to parse_qualification_line
MaxReqs == 3       \* requirements per list passed to get_qualification_summary

\* lines a qualification cell is made of
CellLines ==
    { <<"shi", "kaku", "fu", "you">>,                          \* 資格不要
      <<"zen", "shou", "chou", "tou", "itsu", "shi", "kaku", " ",
        "eki", "mu", "no", "tei", "kyou3", " ", "D">>,         \* 全省庁統一資格 役務の提供 D
      <<"zen", "shou", "chou", "tou", "itsu", "shi", "kaku", " ",
        "butsu", "hin", "no", "sei2", "zou", " ", "A">>,       \* 全省庁統一資格 物品の製造 A
      <<"zen", "shou", "chou", "tou", "itsu", "shi", "kaku", "IDSP",
        "sei3", "sou2", "IDSP", "RA", "N", "KU", "fu", "mei2">>,  \* 全省庁統一資格　清掃　ランク不明
      <<"higashi", "kyou4", "to", "chou", "kyou", "sou", "nyuu", "satsu", "san", "ka",
        "shi", "kaku", " ", "soku", "ryou", " ", "C">>,        \* 東京都庁競争入札参加資格 測量 C
      <<"ken2", "setsu", "gyou", "kyou2", "kai2", "kai2", "in", "shi", "kaku">>,  \* 建設業協会会員資格
      <<"jitsu", "seki", "wo", "yuu", "su", "ru", "ko", "to2">>,  \* 実績を有すること
      <<" ", "IDSP">>,                                         \* a blank line
      <<>> }                                                   \* an empty line

RECURSIVE JoinLines(_)
JoinLines(ls) ==
    IF ls = <<>> THEN <<>>
    ELSE IF Len(ls) = 1 THEN ls[1]
    ELSE ls[1] \o <<"\n">> \o JoinLines(Tail(ls))

SeqsUpTo(S, n) == UNION {[1..k -> S] : k \in 0..n}

\* the 入札資格 cells: NaN, or up to MaxLines lines joined by line breaks
Cells ==
    {[na |-> TRUE, s |-> <<>>]}
    \cup {[na |-> FALSE, s |-> JoinLines(ls)] : ls \in SeqsUpTo(CellLines, MaxLines)}

LineHeads ==
    { <<"zen", "shou", "chou", "tou", "itsu", "shi", "kaku">>,     \* 全省庁統一資格
      <<"koku", "do", "kou2", "tsuu", "shou", "kan", "higashi", "chi", "hou", "sei", "bi",
        "kyoku", "kyou", "sou", "nyuu", "satsu", "san", "ka", "shi", "kaku">>,
                                              \* 国土交通省関東地方整備局競争入札参加資格
      <<"higashi", "kyou4", "to", "chou", "kyou", "sou", "nyuu", "satsu", "san", "ka",
        "shi", "kaku">>,                      \* 東京都庁競争入札参加資格
      <<"higashi", "kyou4", "to", "nyuu", "satsu", "san", "ka", "shi", "kaku">>,
                                              \* 東京都入札参加資格
      <<"bou", "ei", "shou", "kyou", "sou", "san", "ka", "shi", "kaku">>,  \* 防衛省競争参加資格
      <<"ken2", "setsu", "gyou", "kyou2", "kai2", "kai2", "in", "shi", "kaku">>,
                                              \* 建設業協会会員資格
      <<"ken2", "setsu", "gyou", "kyou2", "kai2", " ", "zen", "shou", "chou", "tou", "itsu",
        "shi", "kaku">>,                      \* 建設業協会 全省庁統一資格
      <<"jitsu", "seki", "wo", "yuu", "su", "ru", "ko", "to2">> }  \* 実績を有すること

LineTails ==
    { <<>>,
      <<" ", "eki", "mu", "no", "tei", "kyou3", " ", "D">>,       \* " 役務の提供 D"
      <<" ", "butsu", "hin", "no", "sei2", "zou", " ", "A">>,     \* " 物品の製造 A"
      <<" ", " ", "sei3", "sou2", " ", "IDSP", "RA", "N", "KU", "fu", "mei2">>,
                                                                  \* "  清掃 　ランク不明"
      <<" ", "eki", "mu", "no", "tei", "kyou3">>,                 \* " 役務の提供"
      <<"fu", "you">>,                                            \* "不要"
      <<" ", "setsu", "kei2", " ", "E">>,                         \* " 設計 E"
      <<" ", "shu", "rui", "fu", "mei2", " ", "RA", "N", "KU", "na", "si">> }
                                                                  \* " 種類不明 ランク無し"

\* the lines given to parse_qualification_line
Lines == {h \o t : h \in LineHeads, t \in LineTails}

\* lines whose Requirements make up the lists given to get_qualification_summary
SummaryLines ==
    {
      <<"zen", "shou", "chou", "tou", "itsu", "shi", "kaku", "fu", "you">>,  \* 全省庁統一資格不要
      <<"zen", "shou", "chou", "tou", "itsu", "shi", "kaku", " ", "eki", "mu", "no", "tei", "kyou3", " ", "D">>,  \* 全省庁統一資格 役務の提供 D
      <<"zen", "shou", "chou", "tou", "itsu", "shi", "kaku", " ", "butsu", "hin", "no", "sei2", "zou", " ", "A">>,  \* 全省庁統一資格 物品の製造 A
      <<"zen", "shou", "chou", "tou", "itsu", "shi", "kaku", " ", "sei3", "sou2", " ", "RA", "N", "KU", "fu", "mei2">>,  \* 全省庁統一資格 清掃 ランク不明
      <<"zen", "shou", "chou", "tou", "itsu", "shi", "kaku", " ", "shu", "rui", "fu", "mei2", " ", "RA", "N", "KU", "na", "si">>,  \* 全省庁統一資格 種類不明 ランク無し
      <<"kan", "higashi", "chi", "hou", "sei", "bi", "kyoku", "kyou", "sou", "nyuu", "satsu", "san", "ka", "shi", "kaku", " ", "eki", "mu", "no", "tei", "kyou3", " ", "D">>,  \* 関東地方整備局競争入札参加資格 役務の提供 D
      <<"higashi", "kyou4", "to", "nyuu", "satsu", "san", "ka", "shi", "kaku", " ", "butsu", "hin", "no", "sei2", "zou", " ", "A">>,  \* 東京都入札参加資格 物品の製造 A
      <<"bou", "ei", "shou", "kyou", "sou", "san", "ka", "shi", "kaku", " ", "eki", "mu", "no", "tei", "kyou3", " ", "D">>,  \* 防衛省競争参加資格 役務の提供 D
      <<"ken2", "setsu", "gyou", "kyou2", "kai2", "kai2", "in", "shi", "kaku">>,  \* 建設業協会会員資格
      <<"jitsu", "seki", "wo", "yuu", "su", "ru", "ko", "to2">>   \* 実績を有すること
    }

RequirementLists ==
    { [n \in 1..Len(ls) |-> parse_qualification_line(ls[n], n)] :
        ls \in SeqsUpTo(SummaryLines, MaxReqs) }

----------------------------------------------------------------------------
(* State machine *)

Idle ==
    /\ qualifications = <<>>
    /\ summary = None
    /\ record = None
    /\ saved = None
    /\ line = <<>>
    /\ line_num = 0
    /\ parsed = None

NoCell == [na |-> TRUE, s |-> <<>>]

\* the variables of the repository, service and worker specifications at rest
RepoIdle ==
    /\ tables = <<>>
    /\ hashseed = 0
    /\ queue = <<>>
    /\ outputs = <<>>
    /\ last_call = [op |-> "none"]
    /\ extracted = {}
    /\ calls = <<>>
    /\ cookies = <<>>
    /\ page_url = <<>>
    /\ context_cookies = <<>>
    /\ cases = <<>>
    /\ attempted = {}
    /\ read_verdict = <<>>
    /\ bidding_cases = <<>>

NoStats == [processed |-> 0, saved |-> 0, failed |-> 0, skipped |-> 0]

LaterIdle == stats = NoStats /\ RepoIdle

\* the variables of the other specifications, at rest
OtherIdle ==
    /\ input = NoCell
    /\ result = None
    /\ row = <<>>
    /\ built = <<>>
    /\ batch = <<>>
    /\ row_i = 0
    /\ db = <<>>
    /\ outcome = <<>>
    /\ aborted = None
    /\ LaterIdle

\* process_csv_data has read a row with a case id
Init ==
    /\ pc = "row"
    /\ cell \in Cells
    /\ Idle
    /\ OtherIdle

\* qualifications = self.qualification_parser.extract_qualifications(qualification_text)
ExtractQualifications ==
    /\ pc = "row"
    /\ qualifications' = extract_qualifications(cell)
    /\ pc' = "parsed"
    /\ UNCHANGED <<cell, summary, record, saved, line, line_num, parsed>>
    /\ UNCHANGED otherVars

\* qualification_summary = self.qualification_parser.get_qualification_summary(qualifications)
Summarize ==
    /\ pc = "parsed"
    /\ \E catOrder \in ListOfSet(RequiredCodeList(qualifications, "category_normalized")),
          levelOrder \in ListOfSet(RequiredCodeList(qualifications, "level_normalized")) :
            summary' = Some(get_qualification_summary(qualifications, catOrder, levelOrder))
    /\ pc' = "summarized"
    /\ UNCHANGED <<cell, qualifications, record, saved, line, line_num, parsed>>
    /\ UNCHANGED otherVars

\* processed_data = {...}: the qualification and eligibility parts
BuildRecord ==
    /\ pc = "summarized"
    /\ record' = Some([ qualifications |->
                          [ requirements_raw |-> IF cell.na THEN <<>> ELSE cell.s,
                            requirements_parsed |-> qualifications,
                            requirements_summary |-> summary[1] ],
                        eligibility |-> eligibility(qualifications, summary[1]) ])
    /\ pc' = "built"
    /\ UNCHANGED <<cell, qualifications, summary, saved, line, line_num, parsed>>
    /\ UNCHANGED otherVars

\* self.upsert_bidding_case(processed_data) returns True
UpsertSaved ==
    /\ pc = "built"
    /\ saved' = Some(upsert_columns(record[1]))
    /\ pc' = "done"
    /\ UNCHANGED <<cell, qualifications, summary, record, line, line_num, parsed>>
    /\ UNCHANGED otherVars

\* self.upsert_bidding_case(processed_data) catches a database error and returns False
UpsertFailed ==
    /\ pc = "built"
    /\ pc' = "done"
    /\ UNCHANGED <<cell, qualifications, summary, record, saved, line, line_num, parsed>>
    /\ UNCHANGED otherVars

\* the loop goes on to the next row with a case id
NextRow ==
    /\ pc = "done"
    /\ pc' = "row"
    /\ cell' \in Cells
    /\ qualifications' = <<>>
    /\ summary' = None
    /\ record' = None
    /\ saved' = None
    /\ UNCHANGED <<line, line_num, parsed>>
    /\ UNCHANGED otherVars

Next ==
    \/ ExtractQualifications
    \/ Summarize
    \/ BuildRecord
    \/ UpsertSaved
    \/ UpsertFailed
    \/ NextRow

Spec == Init /\ [][Next]_vars

\* parse_qualification_line applied to a line
InitLine ==
    /\ pc = "line"
    /\ cell = NoCell
    /\ qualifications = <<>>
    /\ summary = None
    /\ record = None
    /\ saved = None
    /\ line \in Lines
    /\ line_num \in 1..MaxLineNum
    /\ parsed = None
    /\ OtherIdle

ParseLine ==
    /\ pc = "line"
    /\ parsed' = Some(parse_qualification_line(line, line_num))
    /\ pc' = "line_parsed"
    /\ UNCHANGED <<cell, qualifications, summary, record, saved, line, line_num>>
    /\ UNCHANGED otherVars

NextLine ==
    /\ pc = "line_parsed"
    /\ line' \in Lines
    /\ line_num' \in 1..MaxLineNum
    /\ parsed' = None
    /\ pc' = "line"
    /\ UNCHANGED <<cell, qualifications, summary, record, saved>>
    /\ UNCHANGED otherVars

SpecLine == InitLine /\ [][ParseLine \/ NextLine]_vars

\* get_qualification_summary applied to a list of Requirements
InitSummary ==
    /\ pc = "parsed"
    /\ cell = NoCell
    /\ qualifications \in RequirementLists
    /\ summary = None
    /\ record = None
    /\ saved = None
    /\ line = <<>>
    /\ line_num = 0
    /\ parsed = None
    /\ OtherIdle

SpecSummary == InitSummary /\ [][Summarize]_vars

----------------------------------------------------------------------------
(* Properties *)

\* the qualification text process_csv_data hands to the parser
RawText == IF cell.na THEN <<>> ELSE cell.s

\* the numbers (from 1) of the lines of a text that are not blank
NonBlankLines(text) ==
    {n \in 1..Len(SplitLines(text)) : Strip(SplitLines(text)[n]) # <<>>}

Count(x, s) == Cardinality({i \in 1..Len(s) : s[i] = x})

NoRepeat(s) == \A i, j \in 1..Len(s) : s[i] = s[j] => i = j

Pending == "LLM hantei machi"

\* C1: extract_qualifications returns exactly one Requirement per non-blank
\* line of the text: as many Requirements as the text has non-blank lines,
\* never fewer and never more.
C1_OneRequirementPerLine ==
    pc # "row" => Len(qualifications) = Cardinality(NonBlankLines(RawText))

FamilyOrder ==
    << "no_qualification_required", "unified_qualification",
       "regional_bureau_qualification", "local_government_qualification",
       "ministry_qualification", "industry_specific_qualification" >>

FamilyMatches(k, l) ==
    CASE k = 1 -> MatchNoQualification(l)
      [] k = 2 -> MatchUnified(l) # None
      [] k = 3 -> MatchRegional(l) # None
      [] k = 4 -> MatchLocal(l) # None
      [] k = 5 -> MatchMinistry(l) # None
      [] k = 6 -> MatchIndustry(l) # None

MatchingFamilies(l) == {k \in 1..6 : FamilyMatches(k, l)}

\* C5: the kind of a parsed line is that of the earliest family, in the order
\* NoQualificationRequired, Unified, RegionalBureau, LocalGovernment, Ministry,
\* IndustrySpecific, whose pattern matches the line, and Unknown only if none
\* matches.
C5_EarliestFamilyWins ==
    parsed # None =>
        IF MatchingFamilies(line) = {}
        THEN parsed[1].type = "unknown_qualification"
        ELSE parsed[1].type = FamilyOrder[Min(MatchingFamilies(line))]

\* a line matching the unified and the industry-association pattern, parsed
C5_Witness ==
    /\ parsed # None
    /\ {2, 6} \subseteq MatchingFamilies(line)
    /\ 1 \notin MatchingFamilies(line)
    /\ parsed[1].type = "unified_qualification"

Kinds ==
    { "no_qualification_required", "unified_qualification",
      "regional_bureau_qualification", "local_government_qualification",
      "ministry_qualification", "industry_specific_qualification",
      "unknown_qualification" }

\* C6: every parsed line has one of the seven kinds, and a line matching none
\* of the six families yields an Unknown Requirement of confidence 0.1 with no
\* level and no level code, carrying the line.
C6_KindIsTotal ==
    parsed # None =>
        /\ parsed[1].type \in Kinds
        /\ MatchingFamilies(line) = {} =>
             /\ parsed[1].type = "unknown_qualification"
             /\ parsed[1].confidence = 10
             /\ parsed[1].level = None
             /\ parsed[1].level_normalized = "None"
             /\ parsed[1].raw_text = line

\* a line matching no family, parsed
C6_Witness ==
    /\ parsed # None
    /\ MatchingFamilies(line) = {}
    /\ line # <<>>
    /\ parsed[1].type = "unknown_qualification"

\* the confidence of each kind, in hundredths
ConfidenceOf(type) ==
    CASE type = "no_qualification_required" -> 100
      [] type = "unified_qualification" -> 95
      [] type = "regional_bureau_qualification" -> 90
      [] type = "local_government_qualification" -> 85
      [] type = "ministry_qualification" -> 80
      [] type = "industry_specific_qualification" -> 70
      [] type = "unknown_qualification" -> 10

Grouped(s) ==
    s.unified_qualifications \o s.regional_qualifications \o s.local_qualifications
    \o s.ministry_qualifications \o s.industry_qualifications \o s.unknown_qualifications

\* C8 as claimed: the concatenation of the six sublists equals the input list
\* as a multiset.
C8_GroupsPartitionAll ==
    summary # None =>
        \A q \in Range(qualifications) \cup Range(Grouped(summary[1])) :
            Count(q, Grouped(summary[1])) = Count(q, qualifications)

\* C8 amended: the six sublists are disjoint and their concatenation equals,
\* as a multiset, the Requirements of the input whose kind is not
\* NoQualificationRequired; a NoQualificationRequired Requirement is in none
\* of them.
C8_GroupsPartitionAllButNoQualification ==
    summary # None =>
        \A q \in Range(qualifications) \cup Range(Grouped(summary[1])) :
            Count(q, Grouped(summary[1])) =
                IF q.type = "no_qualification_required" THEN 0 ELSE Count(q, qualifications)

\* a summary of a list holding a NoQualificationRequired, an Unknown and
\* another Requirement
C8_Witness ==
    /\ summary # None
    /\ Len(qualifications) = 3
    /\ summary[1].has_no_qualification_required
    /\ Len(summary[1].unknown_qualifications) = 1
    /\ Len(Grouped(summary[1])) = 2

\* C9: totalRequirements is the length of the list, and
\* hasNoQualificationRequired holds exactly when some Requirement of the list
\* has kind NoQualificationRequired (0 and false for the empty list).
C9_TotalAndFlag ==
    summary # None =>
        /\ summary[1].total_requirements = Len(qualifications)
        /\ summary[1].has_no_qualification_required
             <=> "no_qualification_required" \in {q.type : q \in Range(qualifications)}

\* a summary of a list of two Requirements, one of them NoQualificationRequired
C9_Witness ==
    /\ summary # None
    /\ summary[1].total_requirements = 2
    /\ summary[1].has_no_qualification_required
    /\ Len(Grouped(summary[1])) = 1

----------------------------------------------------------------------------
(* DataNormalizer (src/dags/preprocessor.py): prices *)

\* the decimal digits matched by \d
Digits == <<"0", "1", "2", "3", "4", "5", "6", "7", "8", "9">>

IsDigit(c) == \E k \in 1..Len(Digits) : Digits[k] = c

DigitVal(c) == (CHOOSE k \in 1..Len(Digits) : Digits[k] = c) - 1

\* int() of a string of digits
RECURSIVE ToNat(_)
ToNat(ds) ==
    IF ds = <<>> THEN 0
    ELSE ToNat(SubSeq(ds, 1, Len(ds) - 1)) * 10 + DigitVal(ds[Len(ds)])

RECURSIVE Pow10(_)
Pow10(k) == IF k = 0 THEN 1 ELSE 10 * Pow10(k - 1)

\* a float whose value is n / d, d a power of ten, in lowest such terms
RECURSIVE Float(_, _)
Float(n, d) ==
    IF d > 1 /\ n % 10 = 0 THEN Float(n \div 10, d \div 10) ELSE [n |-> n, d |-> d]

\* str.replace(c, '') for every character c of a set
RECURSIVE Remove(_, _)
Remove(s, chars) ==
    IF s = <<>> THEN <<>>
    ELSE (IF s[1] \in chars THEN <<>> ELSE <<s[1]>>) \o Remove(Tail(s), chars)

HasChar(s, c) == \E i \in 1..Len(s) : s[i] = c

\* the end of the run of digits that starts at i
RECURSIVE DigitsEnd(_, _)
DigitsEnd(s, i) ==
    IF i < Len(s) /\ IsDigit(s[i + 1]) THEN DigitsEnd(s, i + 1) ELSE i

\* re.findall(r'\d+(?:\.\d+)?', s)[0] as [int |-> digits, frac |-> digits after the point],
\* None when the list is empty
FirstNumber(s) ==
    IF \A i \in 1..Len(s) : ~IsDigit(s[i]) THEN None
    ELSE LET i == Min({x \in 1..Len(s) : IsDigit(s[x])})
             j == DigitsEnd(s, i)
             hasFrac == j + 2 <= Len(s) /\ s[j + 1] = "." /\ IsDigit(s[j + 2])
         IN  Some([ int |-> SubSeq(s, i, j),
                    frac |-> IF hasFrac THEN SubSeq(s, j + 2, DigitsEnd(s, j + 2))
                             ELSE <<>> ])

\* the multiplier branch taken with 千 looked for before 万
PriceUnitThousandFirst(s) ==
    IF HasChar(s, "sen") THEN [word |-> "sen", multiplier |-> 1000]
    ELSE IF HasChar(s, "man") THEN [word |-> "man", multiplier |-> 10000]
    ELSE [word |-> "", multiplier |-> 1]

\* if '万' in price_str: ... elif '千' in price_str: ... else: multiplier = 1
PriceUnit(s) ==
    IF HasChar(s, "man") THEN [word |-> "man", multiplier |-> 10000]
    ELSE IF HasChar(s, "sen") THEN [word |-> "sen", multiplier |-> 1000]
    ELSE [word |-> "", multiplier |-> 1]

\* DataNormalizer.normalize_price; "en" is 円, "yen" is ￥, "man" is 万, "sen" is 千
normalize_price(c) ==
    IF Missing(c) THEN None
    ELSE LET s1 == Remove(c.s, {",", "en", "yen"})
             unit == PriceUnit(s1)
             s2 == Remove(s1, {unit.word})
             numbers == FirstNumber(s2)
         IN  IF numbers = None THEN None
             ELSE Some(Float(ToNat(numbers[1].int \o numbers[1].frac) * unit.multiplier,
                             Pow10(Len(numbers[1].frac))))

MaxPriceLen == 4

PriceAlphabet == {"1", "5", ",", ".", "en", "yen", "man", "sen", "yaku"}

PriceExamples ==
    { <<"1", ",", "5", "0", "0", ",", "0", "0", "0", "en">>,       \* 1,500,000円
      <<"1", "5", "0", "man", "en">>,                               \* 150万円
      <<"yen", "3", "sen">>,                                        \* ￥3千
      <<"5", "sen", "man", "en">>,                                  \* 5千万円
      <<"yaku", "1", ".", "5", "0", "man", "en">>,                  \* 約1.50万円
      <<" ", " ">> }

PriceTexts ==
    {NoCell} \cup { [na |-> FALSE, s |-> s] : s \in SeqsUpTo(PriceAlphabet, MaxPriceLen) \cup PriceExamples }

\* the variables of the qualification specifications, at rest
QualIdle ==
    /\ cell = NoCell
    /\ Idle

\* the variables of the record-building and batch specifications, at rest
BuildIdle ==
    /\ row = <<>>
    /\ built = <<>>
    /\ batch = <<>>
    /\ row_i = 0
    /\ db = <<>>
    /\ outcome = <<>>
    /\ aborted = None

InitPrice ==
    /\ pc = "price"
    /\ input \in PriceTexts
    /\ result = None
    /\ QualIdle
    /\ LaterIdle
    /\ BuildIdle

NormalizePrice ==
    /\ pc = "price"
    /\ result' = Some(normalize_price(input))
    /\ pc' = "price_done"
    /\ UNCHANGED <<cell, qualifications, summary, record, saved, line, line_num, parsed>>
    /\ UNCHANGED <<input, buildVars>>
    /\ UNCHANGED laterVars

SpecPrice == InitPrice /\ [][NormalizePrice]_vars

----------------------------------------------------------------------------
(* Properties of normalize_price *)

\* the text of which the number is read: commas, 円, ￥ and the multiplier word removed
PriceStripped ==
    LET word == IF HasChar(input.s, "man") THEN "man" ELSE "sen"
    IN  SelectSeq(input.s, LAMBDA c : c \notin {",", "en", "yen", word})

\* the multiplier the text states
PriceStated ==
    IF HasChar(input.s, "man") THEN 10000 ELSE IF HasChar(input.s, "sen") THEN 1000 ELSE 1

\* t[i..j] is the first numeric token of t: digits, then possibly a point and digits
IsFirstToken(t, i, j) ==
    /\ i \in 1..Len(t) /\ j \in i..Len(t)
    /\ IsDigit(t[i])
    /\ \A x \in 1..(i - 1) : ~IsDigit(t[x])
    /\ \E m \in i..j :
         /\ \A x \in i..m : IsDigit(t[x])
         /\ m < Len(t) => ~IsDigit(t[m + 1])
         /\ \/ /\ m = j
               /\ ~(m + 2 <= Len(t) /\ t[m + 1] = "." /\ IsDigit(t[m + 2]))
            \/ /\ m + 2 <= j
               /\ t[m + 1] = "."
               /\ \A x \in (m + 2)..j : IsDigit(t[x])
               /\ j < Len(t) => ~IsDigit(t[j + 1])

\* value of a numeric token times mult, as tenths^k: n / d = token * mult
TokenTimes(tok, mult, v) ==
    LET p == IF \E x \in 1..Len(tok) : tok[x] = "."
             THEN CHOOSE x \in 1..Len(tok) : tok[x] = "."
             ELSE Len(tok) + 1
        whole == ToNat(SubSeq(tok, 1, p - 1))
        fracDigits == SubSeq(tok, p + 1, Len(tok))
    IN  v.n * Pow10(Len(fracDigits)) = (whole * Pow10(Len(fracDigits)) + ToNat(fracDigits)) * mult * v.d

PriceOf(s) == [na |-> FALSE, s |-> s]

\* C11: normalize_price returns the first numeric token of the text (commas, 円, ￥ and the
\* multiplier word removed) times the stated multiplier (10,000 for 万, 1,000 for 千, else 1),
\* and None when the text holds no number; 1,500,000円 and 150万円 give 1500000, '' gives None
C11_FirstNumberTimesMultiplier ==
    pc = "price_done" =>
      /\ input.na => result[1] = None
      /\ ~input.na =>
           /\ (\A x \in 1..Len(PriceStripped) : ~IsDigit(PriceStripped[x])) <=> result[1] = None
           /\ result[1] # None =>
                \E i, j \in 1..Len(PriceStripped) :
                   /\ IsFirstToken(PriceStripped, i, j)
                   /\ TokenTimes(SubSeq(PriceStripped, i, j), PriceStated, result[1][1])
      /\ input = PriceOf(<<"1", ",", "5", "0", "0", ",", "0", "0", "0", "en">>)
           => result[1] = Some([n |-> 1500000, d |-> 1])
      /\ input = PriceOf(<<"1", "5", "0", "man", "en">>) => result[1] = Some([n |-> 1500000, d |-> 1])
      /\ input = PriceOf(<<>>) => result[1] = None

C11_Witness ==
    /\ pc = "price_done"
    /\ input = PriceOf(<<"5", "sen", "man", "en">>)
    /\ result[1] = Some([n |-> 50000, d |-> 1])

----------------------------------------------------------------------------
(* DataNormalizer: dates *)

\* date_patterns: "Y" is (\d{4}), "N" is (\d{1,2}), anything else that character;
\* "nen" is 年, "gatsu" is 月, "nichi" is 日
date_patterns ==
    << <<"Y", "-", "N", "-", "N">>,
       <<"Y", "/", "N", "/", "N">>,
       <<"N", "/", "N", "/", "Y">>,
       <<"N", "-", "N", "-", "Y">>,
       <<"Y", "nen", "N", "gatsu", "N", "nichi">> >>

AllDigits(s, a, b) == b <= Len(s) /\ \A x \in a..b : IsDigit(s[x])

\* re.match of the items from position i on: Some(groups) or None; \d{1,2} is greedy
\* and gives a digit back when the rest does not match
RECURSIVE MatchDate(_, _, _)
MatchDate(s, i, items) ==
    IF items = <<>> THEN Some(<<>>)
    ELSE LET Group(n) ==
               IF ~AllDigits(s, i, i + n - 1) THEN None
               ELSE LET rest == MatchDate(s, i + n, Tail(items))
                    IN  IF rest = None THEN None
                        ELSE Some(<<SubSeq(s, i, i + n - 1)>> \o rest[1])
         IN  CASE items[1] = "Y" -> Group(4)
               [] items[1] = "N" -> IF Group(2) # None THEN Group(2) ELSE Group(1)
               [] OTHER -> IF i <= Len(s) /\ s[i] = items[1]
                           THEN MatchDate(s, i + 1, Tail(items))
                           ELSE None

IsLeap(y) == y % 4 = 0 /\ (y % 100 # 0 \/ y % 400 = 0)

DaysInMonth(y, m) ==
    CASE m \in {4, 6, 9, 11} -> 30
      [] m = 2 -> IF IsLeap(y) THEN 29 ELSE 28
      [] OTHER -> 31

\* datetime(year, month, day) does not raise ValueError
ValidDate(y, m, d) ==
    /\ y \in 1..9999
    /\ m \in 1..12
    /\ d \in 1..DaysInMonth(y, m)

\* the decimal digits of n, at least width of them
RECURSIVE ToDigits(_, _)
ToDigits(n, width) ==
    IF n < 10 /\ width <= 1 THEN <<Digits[n + 1]>>
    ELSE ToDigits(n \div 10, width - 1) \o <<Digits[(n % 10) + 1]>>

\* normalized_date.strftime('%Y-%m-%d'): %m and %d are zero-padded; %Y is formatted by
\* the C library, which pads a year below 1000 to four digits or does not (glibc)
strftime(y, m, d, padYear) ==
    ToDigits(y, IF padYear THEN 4 ELSE 1) \o <<"-">> \o ToDigits(m, 2) \o <<"-">> \o ToDigits(d, 2)

\* the captured groups read as year, month, day whatever the length of the first
DateFieldsYearFirst(groups) ==
    [year |-> ToNat(groups[1]), month |-> ToNat(groups[2]), day |-> ToNat(groups[3])]

\* if len(groups[0]) == 4: year, month, day = groups else: month, day, year = groups
DateFields(groups) ==
    IF Len(groups[1]) = 4
    THEN [year |-> ToNat(groups[1]), month |-> ToNat(groups[2]), day |-> ToNat(groups[3])]
    ELSE [year |-> ToNat(groups[3]), month |-> ToNat(groups[1]), day |-> ToNat(groups[2])]

\* the loop over date_patterns from the k-th pattern on
RECURSIVE TryDatePatterns(_, _, _)
TryDatePatterns(s, k, padYear) ==
    IF k > Len(date_patterns) THEN None
    ELSE LET match == MatchDate(s, 1, date_patterns[k])
         IN  IF match = None THEN TryDatePatterns(s, k + 1, padYear)
             ELSE LET f == DateFields(match[1])
                  IN  IF ValidDate(f.year, f.month, f.day)
                      THEN Some(strftime(f.year, f.month, f.day, padYear))
                      ELSE TryDatePatterns(s, k + 1, padYear)

\* DataNormalizer.normalize_date
normalize_date(c, padYear) ==
    IF Missing(c) THEN None ELSE TryDatePatterns(Strip(c.s), 1, padYear)

YearTexts ==
    { <<"2", "0", "2", "4">>, <<"2", "0", "2", "3">>, <<"1", "9", "0", "0">>,
      <<"2", "0", "0", "0">>, <<"0", "9", "9", "9">>, <<"0", "0", "0", "0">> }

MonthTexts ==
    { <<"1">>, <<"0", "1">>, <<"2">>, <<"0", "2">>, <<"0", "4">>, <<"1", "2">>, <<"1", "3">>, <<"0">> }

DayTexts ==
    { <<"1">>, <<"0", "1">>, <<"5">>, <<"2", "9">>, <<"3", "0">>, <<"3", "1">>, <<"3", "2">>, <<"0">> }

\* the five spellings of a date
Spell(k, y, m, d) ==
    CASE k = 1 -> y \o <<"-">> \o m \o <<"-">> \o d
      [] k = 2 -> y \o <<"/">> \o m \o <<"/">> \o d
      [] k = 3 -> m \o <<"/">> \o d \o <<"/">> \o y
      [] k = 4 -> m \o <<"-">> \o d \o <<"-">> \o y
      [] k = 5 -> y \o <<"nen">> \o m \o <<"gatsu">> \o d \o <<"nichi">>

DateExamples ==
    { <<>>, <<" ", " ">>, <<"nichi">>,
      <<" ", "2", "0", "2", "4", "/", "3", "/", "5", " ">>,                  \* " 2024/3/5 "
      <<"2", "0", "2", "4", "-", "0", "3", "-", "0", "5", "T", "1", "0">>,   \* 2024-03-05T10
      <<"2", "0", "2", "4", "-", "1", "-", "1", "2", "3">>,                  \* 2024-1-123
      <<"1", "/", "2", "/", "2", "0", "2", "4", "5">>,                       \* 1/2/20245
      <<"2", "0", "2", "4", "-", "3", "/", "5">>,                            \* 2024-3/5
      <<"2", "0", "2", "4", "nen", "3", "gatsu", "5">>,                      \* 2024年3月5
      <<"2", "0", "2", "4", "0", "3", "0", "5">>,                            \* 20240305
      <<"1", "2", "3", "/", "1", "/", "2", "0", "2", "4">> }                 \* 123/1/2024

DateTexts ==
    {NoCell} \cup
    { [na |-> FALSE, s |-> s] :
        s \in DateExamples \cup
              { Spell(k, y, m, d) : k \in 1..5, y \in YearTexts, m \in MonthTexts, d \in DayTexts } }

InitDate ==
    /\ pc = "date"
    /\ input \in DateTexts
    /\ result = None
    /\ QualIdle
    /\ LaterIdle
    /\ BuildIdle

NormalizeDate ==
    /\ pc = "date"
    /\ \E padYear \in BOOLEAN : result' = Some(normalize_date(input, padYear))
    /\ pc' = "date_done"
    /\ UNCHANGED <<cell, qualifications, summary, record, saved, line, line_num, parsed>>
    /\ UNCHANGED <<input, buildVars>>
    /\ UNCHANGED laterVars

SpecDate == InitDate /\ [][NormalizeDate]_vars

----------------------------------------------------------------------------
(* Properties of normalize_date *)

\* the ISO date YYYY-MM-DD of a year, a month and a day
IsoDate(y, m, d) == ToDigits(y, 4) \o <<"-">> \o ToDigits(m, 2) \o <<"-">> \o ToDigits(d, 2)

\* C12: a valid date with a four-digit year (1000 to 9999) normalizes to the ISO date
\* YYYY-MM-DD of its year, month and day in each of the five spellings, month and day
\* zero-padded or not; so the five spellings agree and a leading four-digit group is the year
C12_SpellingsAgree ==
    pc = "date_done" =>
      \A k \in 1..5, y \in YearTexts, m \in MonthTexts, d \in DayTexts :
         ( /\ input.s = Spell(k, y, m, d)
           /\ y[1] # "0"
           /\ ValidDate(ToNat(y), ToNat(m), ToNat(d)) )
         => result[1] = Some(IsoDate(ToNat(y), ToNat(m), ToNat(d)))

\* 2/29/2024, month first and unpadded, normalized
C12_Witness ==
    /\ pc = "date_done"
    /\ input.s = <<"2", "/", "2", "9", "/", "2", "0", "2", "4">>
    /\ result[1] = Some(<<"2", "0", "2", "4", "-", "0", "2", "-", "2", "9">>)

\* C13: normalize_date returns no value that is not a calendar date: a text that matches a
\* pattern but whose month and day are not a valid date gives None, and every value returned
\* is the zero-padded YYYY-MM-DD of the year, month and day captured from the text
C13_OnlyPaddedCalendarDates ==
    pc = "date_done" =>
      /\ result[1] # None =>
           LET r == result[1][1]
           IN  /\ Len(r) = 10
               /\ AllDigits(r, 1, 4) /\ AllDigits(r, 6, 7) /\ AllDigits(r, 9, 10)
               /\ r[5] = "-" /\ r[8] = "-"
               /\ ValidDate(ToNat(SubSeq(r, 1, 4)), ToNat(SubSeq(r, 6, 7)), ToNat(SubSeq(r, 9, 10)))
      /\ \A k \in 1..5, y \in YearTexts, m \in MonthTexts, d \in DayTexts :
           input.s = Spell(k, y, m, d) =>
             IF ValidDate(ToNat(y), ToNat(m), ToNat(d))
             THEN result[1] = Some(IsoDate(ToNat(y), ToNat(m), ToNat(d)))
             ELSE result[1] = None

----------------------------------------------------------------------------
(* DataNormalizer: business types *)

\* self.business_code_map, in the order of the dict
business_code_map ==
    <<
      [name |-> <<"fune", "haku", "dot", "kou3", "kuu", "ki", "kan", "ren">>,
        code |-> "B01"],  \* 船舶・航空機関連
      [name |-> <<"ho", "shu2", "dot", "ten", "ken3", "dot", "sei", "bi">>,
        code |-> "B02"],  \* 保守・点検・整備
      [name |-> <<"ki2", "shou2", "dot", "kan2", "kyou5", "dot", "ei", "sei4", "kan", "ren", "SA", "BAR", "BI", "SU">>,
        code |-> "B03"],  \* 気象・環境・衛生関連サービス
      [name |-> <<"ken2", "setsu", "dot", "kou", "ji">>,
        code |-> "B04"],  \* 建設・工事
      [name |-> <<"I", "T", "SA", "BAR", "BI", "SU">>,
        code |-> "B05"],  \* ITサービス
      [name |-> <<"SI", "SU", "TE", "MU", "kai", "hatsu">>,
        code |-> "B05"],  \* システム開発
      [name |-> <<"jou", "hou2", "sho", "ri">>,
        code |-> "B05"],  \* 情報処理
      [name |-> <<"KO", "N", "SA", "RU", "TA", "N", "TO">>,
        code |-> "B06"],  \* コンサルタント
      [name |-> <<"chou2", "sa", "dot", "ken3", "sa">>,
        code |-> "B06"],  \* 調査・検査
      [name |-> <<"chou2", "sa", "dot", "ki3", "kaku2">>,
        code |-> "B06"],  \* 調査・企画
      [name |-> <<"butsu", "hin", "dot", "bi", "hin">>,
        code |-> "B07"],  \* 物品・備品
      [name |-> <<"ki", "ki4", "dot", "setsu", "bi">>,
        code |-> "B07"],  \* 機器・設備
      [name |-> <<"eki", "mu">>,
        code |-> "B08"],  \* 役務
      [name |-> <<"SA", "BAR", "BI", "SU">>,
        code |-> "B08"],  \* サービス
      [name |-> <<"soku", "ryou">>,
        code |-> "B09"],  \* 測量
      [name |-> <<"i", "ryou2", "dot", "kai4", "go", "dot", "fuku", "shi3", "kan", "ren", "butsu", "hin">>,
        code |-> "B10"],  \* 医療・介護・福祉関連物品
      [name |-> <<"jou", "hou2", "dot", "tsuu", "shin", "kan", "ren", "butsu", "hin">>,
        code |-> "B11"],  \* 情報・通信関連物品
      [name |-> <<"ji", "mu", "ki", "ki4", "dot", "PA", "SO", "KO", "N", "kan", "ren", "ki", "ki4">>,
        code |-> "B12"],  \* 事務機器・パソコン関連機器
      [name |-> <<"RI", "BAR", "SU", "dot", "RE", "N", "TA", "RU", "dot", "chin", "tai", "shaku">>,
        code |-> "B13"],  \* リース・レンタル・賃貸借
      [name |-> <<"nichi", "you2", "hin">>,
        code |-> "B14"],  \* 日用品
      [name |-> <<"ji2", "dou2", "sha2", "dot", "BA", "SU", "dot", "tetsu", "dou", "kan", "ren">>,
        code |-> "B15"],  \* 自動車・バス・鉄道関連
      [name |-> <<"so", "no", "ta">>,
        code |-> "B99"]   \* その他
    >>

\* the entries of business_code_map whose name is a substring of the line
ContainedEntries(l) == {k \in 1..Len(business_code_map) : Contains(l, business_code_map[k].name)}

\* the loop over business_code_map.items() with the last containing entry kept
LookupBusinessLastWins(l) ==
    IF ContainedEntries(l) = {} THEN [name |-> l, code |-> "B99"]
    ELSE business_code_map[CHOOSE k \in ContainedEntries(l) : \A x \in ContainedEntries(l) : x <= k]

\* for business_name, code in self.business_code_map.items(): if business_name in line: ... break
\* and the B99 default; name is what extract_business_types_with_codes appends
LookupBusiness(l) ==
    IF ContainedEntries(l) = {} THEN [name |-> l, code |-> "B99"]
    ELSE business_code_map[Min(ContainedEntries(l))]

\* the lookup of every stripped line of the text, the blank ones too
RECURSIVE LookupLinesKeepBlank(_)
LookupLinesKeepBlank(ls) ==
    IF ls = <<>> THEN <<>>
    ELSE <<LookupBusiness(Strip(ls[1]))>> \o LookupLinesKeepBlank(Tail(ls))

\* the (name, code) found for every stripped non-blank line of the text, in line order
RECURSIVE LookupLines(_)
LookupLines(ls) ==
    IF ls = <<>> THEN <<>>
    ELSE (IF Strip(ls[1]) = <<>> THEN <<>> ELSE <<LookupBusiness(Strip(ls[1]))>>)
         \o LookupLines(Tail(ls))

\* the list business_types of normalize_business_types before duplicates are removed
business_types(c) ==
    IF Missing(c) THEN <<>>
    ELSE LET found == LookupLines(SplitLines(c.s))
         IN  [i \in 1..Len(found) |-> found[i].code]

\* the loop over zip(business_codes, business_names) with seen_codes
RECURSIVE UniqueByCode(_, _)
UniqueByCode(found, seen_codes) ==
    IF found = <<>> THEN <<>>
    ELSE IF found[1].code \in seen_codes THEN UniqueByCode(Tail(found), seen_codes)
    ELSE <<found[1]>> \o UniqueByCode(Tail(found), seen_codes \cup {found[1].code})

\* DataNormalizer.extract_business_types_with_codes: (unique_names, unique_codes)
extract_business_types_with_codes(c) ==
    IF Missing(c) THEN [names |-> <<>>, codes |-> <<>>]
    ELSE LET unique == UniqueByCode(LookupLines(SplitLines(c.s)), {})
         IN  [ names |-> [i \in 1..Len(unique) |-> unique[i].name],
               codes |-> [i \in 1..Len(unique) |-> unique[i].code] ]

MaxBusinessLines == 3

BusinessLines ==
    {
      <<"I", "T", "SA", "BAR", "BI", "SU">>,  \* "ITサービス"
      <<"SI", "SU", "TE", "MU", "kai", "hatsu">>,  \* "システム開発"
      <<"ken2", "setsu", "dot", "kou", "ji">>,  \* "建設・工事"
      <<"SA", "BAR", "BI", "SU">>,  \* "サービス"
      <<"so", "no", "ta">>,  \* "その他"
      <<"nou", "gyou">>,  \* "農業"
      <<"ki2", "shou2", "dot", "kan2", "kyou5", "dot", "ei", "sei4", "kan", "ren", "SA", "BAR", "BI", "SU">>,  \* "気象・環境・衛生関連サービス"
      <<"I", "T", "SA", "BAR", "BI", "SU", "dot", "eki", "mu">>,  \* "ITサービス・役務"
      <<" ", "soku", "ryou", " ">>,  \* " 測量 "
      <<" ", " ">>,  \* "  "
      <<>>   \* ""
    }

BusinessTexts ==
    {NoCell} \cup {[na |-> FALSE, s |-> JoinLines(ls)] : ls \in SeqsUpTo(BusinessLines, MaxBusinessLines)}

InitBusiness ==
    /\ pc = "business"
    /\ input \in BusinessTexts
    /\ result = None
    /\ QualIdle
    /\ LaterIdle
    /\ BuildIdle

\* DataNormalizer.normalize_business_types: return list(set(business_types)), a list of the
\* distinct codes in the iteration order of a set of strings
NormalizeBusinessTypes ==
    /\ pc = "business"
    /\ \E order \in ListOfSet(business_types(input)) : result' = Some(order)
    /\ pc' = "types_done"
    /\ UNCHANGED <<cell, qualifications, summary, record, saved, line, line_num, parsed>>
    /\ UNCHANGED <<input, buildVars>>
    /\ UNCHANGED laterVars

ExtractBusinessTypesWithCodes ==
    /\ pc = "business"
    /\ result' = Some(extract_business_types_with_codes(input))
    /\ pc' = "codes_done"
    /\ UNCHANGED <<cell, qualifications, summary, record, saved, line, line_num, parsed>>
    /\ UNCHANGED <<input, buildVars>>
    /\ UNCHANGED laterVars

SpecBusiness == InitBusiness /\ [][NormalizeBusinessTypes \/ ExtractBusinessTypesWithCodes]_vars

----------------------------------------------------------------------------
(* Properties of the business-type normalizers *)

\* the stripped non-blank lines of the input text, in order
BusinessInputLines ==
    IF input.na THEN <<>>
    ELSE LET ls == SplitLines(input.s)
         IN  SelectSeq([i \in 1..Len(ls) |-> Strip(ls[i])], LAMBDA l : l # <<>>)

\* the code of a line: that of the first table entry contained in it, else B99
CodeOfLine(l) ==
    IF \E k \in 1..Len(business_code_map) : Contains(l, business_code_map[k].name)
    THEN business_code_map[Min({k \in 1..Len(business_code_map) :
                                   Contains(l, business_code_map[k].name)})].code
    ELSE "B99"

\* codes is the list of the distinct codes of the lines in first-seen order
FirstSeenOrder(codes) ==
    /\ NoRepeat(codes)
    /\ Range(codes) = {CodeOfLine(BusinessInputLines[j]) : j \in 1..Len(BusinessInputLines)}
    /\ \A a, b \in 1..Len(codes) :
         a < b =>
           Min({j \in 1..Len(BusinessInputLines) : CodeOfLine(BusinessInputLines[j]) = codes[a]})
             < Min({j \in 1..Len(BusinessInputLines) : CodeOfLine(BusinessInputLines[j]) = codes[b]})

\* C14: normalize_business_types returns the codes of the non-blank lines without
\* duplicates in first-seen order: its i-th code is the i-th distinct code in line order
C14_CodesInFirstSeenOrder ==
    pc = "types_done" => FirstSeenOrder(result[1])

\* C15: extract_business_types_with_codes gives every non-blank line the first table entry
\* whose name the line contains, else B99 with the line as name; the name list and the code
\* list have the same length, no code repeats, the codes are in first-seen order and the
\* i-th name is the one of the first line that yielded the i-th code
C15_NamesAndCodes ==
    pc = "codes_done" =>
      LET names == result[1].names
          codes == result[1].codes
          NameOfLine(l) ==
              IF \E k \in 1..Len(business_code_map) : Contains(l, business_code_map[k].name)
              THEN business_code_map[Min({k \in 1..Len(business_code_map) :
                                             Contains(l, business_code_map[k].name)})].name
              ELSE l
      IN  /\ Len(names) = Len(codes)
          /\ FirstSeenOrder(codes)
          /\ \A i \in 1..Len(codes) :
               names[i] = NameOfLine(BusinessInputLines[
                            Min({j \in 1..Len(BusinessInputLines) :
                                   CodeOfLine(BusinessInputLines[j]) = codes[i]})])

\* ITサービス・役務 (B05 before B08), a line of no entry, then その他 (B99 again)
C15_Witness ==
    /\ pc = "codes_done"
    /\ input.s = JoinLines(<< <<"I", "T", "SA", "BAR", "BI", "SU", "dot", "eki", "mu">>,
                              <<"nou", "gyou">>, <<"so", "no", "ta">> >>)
    /\ result[1] = [ names |-> << <<"I", "T", "SA", "BAR", "BI", "SU">>, <<"nou", "gyou">> >>,
                      codes |-> <<"B05", "B99">> ]

----------------------------------------------------------------------------
(* DataNormalizer: prefectures *)

\* prefecture_patterns: the alternatives of each of the eight patterns, in order
prefecture_patterns ==
    <<
      << <<"kita", "umi", "dou">> >>,  \* 北海道
      << <<"ao", "mori", "ken">>,
         <<"iwa", "te", "ken">>,
         <<"miya", "shiro", "ken">>,
         <<"aki", "ta2", "ken">>,
         <<"yama", "kata", "ken">>,
         <<"fuku", "shima", "ken">> >>,  \* 青森県|岩手県|宮城県|秋田県|山形県|福島県
      << <<"ibara", "shiro", "ken">>,
         <<"tochi", "gi", "ken">>,
         <<"gun", "ma", "ken">>,
         <<"sai", "tama", "ken">>,
         <<"sen", "ba2", "ken">>,
         <<"higashi", "kyou4", "to">>,
         <<"kami", "na2", "kawa", "ken">> >>,  \* 茨城県|栃木県|群馬県|埼玉県|千葉県|東京都|神奈川県
      << <<"nii", "gata", "ken">>,
         <<"tomi", "yama", "ken">>,
         <<"ishi", "kawa", "ken">>,
         <<"fuku", "i2", "ken">>,
         <<"yama", "nashi", "ken">>,
         <<"naga", "no2", "ken">>,
         <<"gi2", "fu3", "ken">>,
         <<"shizu", "oka", "ken">>,
         <<"ai2", "chi3", "ken">> >>,  \* 新潟県|富山県|石川県|福井県|山梨県|長野県|岐阜県|静岡県|愛知県
      << <<"mi", "e", "ken">>,
         <<"shiga", "ga", "ken">>,
         <<"kyou4", "to", "fu2">>,
         <<"oo", "saka", "fu2">>,
         <<"hyou", "go2", "ken">>,
         <<"na2", "ra", "ken">>,
         <<"wa", "uta", "yama", "ken">> >>,  \* 三重県|滋賀県|京都府|大阪府|兵庫県|奈良県|和歌山県
      << <<"tori", "tottori", "ken">>,
         <<"shima", "ne", "ken">>,
         <<"oka", "yama", "ken">>,
         <<"hiro", "shima", "ken">>,
         <<"yama", "guchi", "ken">> >>,  \* 鳥取県|島根県|岡山県|広島県|山口県
      << <<"toku", "shima", "ken">>,
         <<"ka2", "kawa", "ken">>,
         <<"ai2", "hime", "ken">>,
         <<"kou4", "chi3", "ken">> >>,  \* 徳島県|香川県|愛媛県|高知県
      << <<"fuku", "oka", "ken">>,
         <<"sa2", "ga", "ken">>,
         <<"naga", "saki", "ken">>,
         <<"kuma", "moto", "ken">>,
         <<"oo", "ita", "ken">>,
         <<"miya", "saki", "ken">>,
         <<"kago", "ko2", "shima", "ken">>,
         <<"oki", "nawa", "ken">> >>   \* 福岡県|佐賀県|長崎県|熊本県|大分県|宮崎県|鹿児島県|沖縄県
    >>

\* the positions of the text where an alternative of the pattern matches
MatchPositions(s, alts) == {i \in 1..Len(s) : \E a \in 1..Len(alts) : LitAt(alts[a], s, i)}

\* re.search(pattern, s).group(1): at the leftmost position where an alternative matches,
\* the first alternative that matches there
SearchAlternatives(s, alts) ==
    LET i == Min(MatchPositions(s, alts))
    IN  alts[Min({a \in 1..Len(alts) : LitAt(alts[a], s, i)})]

\* the prefecture name that occurs leftmost in the text, whatever its pattern
SearchLeftmost(s, k) ==
    LET all == UNION {Range(prefecture_patterns[g]) : g \in 1..Len(prefecture_patterns)}
        hits == {i \in 1..Len(s) : \E n \in all : LitAt(n, s, i)}
    IN  IF hits = {} THEN None
        ELSE Some(CHOOSE n \in all : LitAt(n, s, Min(hits)))

\* for pattern in prefecture_patterns: match = re.search(pattern, location_str) ...
RECURSIVE SearchPatterns(_, _)
SearchPatterns(s, k) ==
    IF k > Len(prefecture_patterns) THEN None
    ELSE IF MatchPositions(s, prefecture_patterns[k]) # {}
         THEN Some(SearchAlternatives(s, prefecture_patterns[k]))
         ELSE SearchPatterns(s, k + 1)

\* DataNormalizer.extract_prefecture
extract_prefecture(c) == IF Missing(c) THEN None ELSE SearchPatterns(c.s, 1)

MaxAddressParts == 3

AddressParts ==
    {
      <<"higashi", "kyou4", "to">>,  \* "東京都"
      <<"kyou4", "to", "fu2">>,  \* "京都府"
      <<"fu2", "naka", "shi2">>,  \* "府中市"
      <<"kita", "umi", "dou">>,  \* "北海道"
      <<"oo", "saka", "fu2">>,  \* "大阪府"
      <<"oki", "nawa", "ken">>,  \* "沖縄県"
      <<"ao", "mori", "ken">>,  \* "青森県"
      <<"hiro", "shima", "ken">>,  \* "広島県"
      <<"sen", "yo", "ta2", "ku">>,  \* "千代田区"
      <<" ">>,  \* " "
      <<"o", "gasa", "wara">>   \* "小笠原"
    }

RECURSIVE Concat(_)
Concat(ps) == IF ps = <<>> THEN <<>> ELSE ps[1] \o Concat(Tail(ps))

AddressTexts ==
    {NoCell} \cup {[na |-> FALSE, s |-> Concat(ps)] : ps \in SeqsUpTo(AddressParts, MaxAddressParts)}

InitPrefecture ==
    /\ pc = "prefecture"
    /\ input \in AddressTexts
    /\ result = None
    /\ QualIdle
    /\ LaterIdle
    /\ BuildIdle

ExtractPrefecture ==
    /\ pc = "prefecture"
    /\ result' = Some(extract_prefecture(input))
    /\ pc' = "prefecture_done"
    /\ UNCHANGED <<cell, qualifications, summary, record, saved, line, line_num, parsed>>
    /\ UNCHANGED <<input, buildVars>>
    /\ UNCHANGED laterVars

SpecPrefecture == InitPrefecture /\ [][ExtractPrefecture]_vars

----------------------------------------------------------------------------
(* Properties of extract_prefecture *)

\* the regional groups of which a prefecture name occurs somewhere in the input text
GroupsInText ==
    {g \in 1..Len(prefecture_patterns) :
        \E a \in 1..Len(prefecture_patterns[g]) : Contains(input.s, prefecture_patterns[g][a])}

\* C16: extract_prefecture returns a prefecture of the earliest of the eight regional groups
\* (Hokkaido, Tohoku, Kanto, Chubu, Kinki, Chugoku, Shikoku, Kyushu/Okinawa) of which a name
\* occurs anywhere in the text, wherever the names of later groups stand, and None when no
\* prefecture name occurs; 東京都府中市 gives 東京都, not 京都府
C16_EarliestGroupWins ==
    pc = "prefecture_done" /\ ~input.na =>
      /\ GroupsInText = {} <=> result[1] = None
      /\ GroupsInText # {} =>
           /\ result[1][1] \in Range(prefecture_patterns[Min(GroupsInText)])
           /\ Contains(input.s, result[1][1])
      /\ input.s = <<"higashi", "kyou4", "to", "fu2", "naka", "shi2">>
           => result[1] = Some(<<"higashi", "kyou4", "to">>)

\* 京都府 then 北海道: the later name is of the earlier group and is returned
C16_Witness ==
    /\ pc = "prefecture_done"
    /\ input.s = <<"kyou4", "to", "fu2", "kita", "umi", "dou">>
    /\ result[1] = Some(<<"kita", "umi", "dou">>)

----------------------------------------------------------------------------
(* DataNormalizer: empty, blank and absent input *)

MaxBlankLen == 3

\* None/NaN, the texts of at most MaxBlankLen blank characters, and a few texts that are not blank
BlankTexts ==
    {NoCell}
    \cup {[na |-> FALSE, s |-> s] : s \in SeqsUpTo({" ", "IDSP", "\n"}, MaxBlankLen)}
    \cup {[na |-> FALSE, s |-> s] :
            s \in { <<" ", "1", "en">>, <<" ", "\n", "soku", "ryou">>,
                    <<"2", "0", "2", "4", "/", "3", "/", "5">>, <<" ", "kita", "umi", "dou">> }}

InitBlank ==
    /\ pc \in {"price", "date", "business", "prefecture"}
    /\ input \in BlankTexts
    /\ result = None
    /\ QualIdle
    /\ LaterIdle
    /\ BuildIdle

NextBlank ==
    \/ NormalizePrice
    \/ NormalizeDate
    \/ NormalizeBusinessTypes
    \/ ExtractBusinessTypesWithCodes
    \/ ExtractPrefecture

SpecBlank == InitBlank /\ [][NextBlank]_vars

IsBlankInput == input.na \/ \A i \in 1..Len(input.s) : IsSpace(input.s[i])

\* C17: for an empty, blank-only or absent (None/NaN) input every normalizer returns its
\* empty value: normalize_price, normalize_date and extract_prefecture return None,
\* normalize_business_types an empty list, extract_business_types_with_codes two empty lists
C17_BlankGivesEmpty ==
    IsBlankInput =>
      /\ pc \in {"price_done", "date_done", "prefecture_done"} => result = Some(None)
      /\ pc = "types_done" => result = Some(<<>>)
      /\ pc = "codes_done" => result = Some([names |-> <<>>, codes |-> <<>>])

\* a text of two blank lines given to extract_business_types_with_codes
C17_Witness ==
    /\ input = [na |-> FALSE, s |-> <<" ", "\n", "IDSP">>]
    /\ pc = "codes_done"
    /\ result = Some([names |-> <<>>, codes |-> <<>>])

----------------------------------------------------------------------------
(* Building the output record of one CSV row:                              *)
(* BiddingDataManager.process_csv_data / normalize_basic_data              *)
(* (src/dags/preprocessor.py) and                                          *)
(* BiddingProcessingService._create_case_from_csv_row                      *)
(* (src/dags/core/services.py).                                            *)
(*                                                                         *)
(* A row is a function of the columns the CSV file has to the cell of the  *)
(* row: NoCell for an empty cell (NaN), else its text.  The columns are    *)
(* "anken_id" 案件ID, "anken_mei" 案件名, "nyuusatsu_shikaku" 入札資格,    *)
(* "gyoushu" 業種, "rakusatsu_kakaku" 落札価格, "anken_koujibi" 案件公示日,*)
(* "kikan_shozaichi" 機関所在地 and "bunsho_suu" 文書数.  A field of a     *)
(* record that is copied from a cell is Null (None), Str(text), NaN or     *)
(* Num(number).                                                            *)

Null == [kind |-> "None", v |-> <<>>]
Str(s) == [kind |-> "str", v |-> s]
NaN == [kind |-> "nan", v |-> <<>>]
Num(n) == [kind |-> "int", v |-> <<n>>]

\* what a builder gives: the record, or the exception it raised
Built(data) == [raised |-> "", data |-> Some(data)]
Raised(exception) == [raised |-> exception, data |-> None]

\* pd.isna(row.get(col)): the column is not in the file (None) or the cell is empty (NaN)
IsNa(r, col) == col \notin DOMAIN r \/ r[col].na

\* row.get(col) as the argument of a normalizer, to which None and NaN are the same
CellOf(r, col) == IF col \in DOMAIN r THEN r[col] ELSE NoCell

\* row.get(col) if not pd.isna(row.get(col)) else None
PassThrough(r, col) == IF IsNa(r, col) THEN Null ELSE Str(r[col].s)

\* row.get(col, default) of _create_case_from_csv_row: an empty cell stays NaN
GetOr(r, col, default) ==
    IF col \notin DOMAIN r THEN default
    ELSE IF r[col].na THEN NaN ELSE Str(r[col].s)

\* int(text) raises ValueError
NotAnInt(c) == c.s = <<>> \/ \E i \in 1..Len(c.s) : ~IsDigit(c.s[i])

\* normalize_basic_data(row): the fields modelled
normalize_basic_data(r, padYear, typesOrder) ==
    LET with_codes == extract_business_types_with_codes(CellOf(r, "gyoushu"))
    IN  [ announcement_date |-> normalize_date(CellOf(r, "anken_koujibi"), padYear),
          normalized_award_price |-> normalize_price(CellOf(r, "rakusatsu_kakaku")),
          business_types |-> typesOrder,
          business_type_names |-> with_codes.names,
          business_type_codes |-> with_codes.codes,
          prefecture |-> extract_prefecture(CellOf(r, "kikan_shozaichi")) ]

MaxRuns == 2

MaxClock == 2

\* qualification_text = row.get('入札資格', '') if not pd.isna(...) else ""
qualification_text(r) ==
    IF IsNa(r, "nyuusatsu_shikaku") THEN [na |-> FALSE, s |-> <<>>] ELSE r["nyuusatsu_shikaku"]

\* processed_data = {...} of process_csv_data, the fields modelled; now is the value of
\* datetime.now(), the other arguments are the locals of the loop body
processed_data(r, now, normalized_data, quals, qualification_summary) ==
    [ case_id |-> ToNat(r["anken_id"].s),
      case_name |-> PassThrough(r, "anken_mei"),
      organization |->
        [ location |-> PassThrough(r, "kikan_shozaichi"),
          prefecture |-> normalized_data.prefecture ],
      schedule |-> [ announcement_date |-> normalized_data.announcement_date ],
      qualifications |->
        [ requirements_raw |-> Str(qualification_text(r).s),
          requirements_parsed |-> quals,
          requirements_summary |-> qualification_summary,
          business_types_raw |-> PassThrough(r, "gyoushu"),
          business_types_normalized |-> normalized_data.business_types,
          business_type |-> normalized_data.business_type_names,
          business_type_code |-> normalized_data.business_type_codes ],
      pricing |->
        [ award_price_raw |-> PassThrough(r, "rakusatsu_kakaku"),
          award_price_normalized |-> normalized_data.normalized_award_price ],
      processing_info |-> [ processed_at |-> now ],
      eligibility |-> eligibility(quals, qualification_summary),
      documents |->
        [ count |-> IF IsNa(r, "bunsho_suu") THEN Num(0)
                    ELSE Num(ToNat(r["bunsho_suu"].s)) ] ]

\* the body of the row loop of process_csv_data up to processed_data: int() of a case id
\* or of a document count that is not a number raises ValueError
build_processed_data(r, now, normalized_data, quals, qualification_summary) ==
    IF NotAnInt(r["anken_id"]) \/ (~IsNa(r, "bunsho_suu") /\ NotAnInt(r["bunsho_suu"]))
    THEN Raised("ValueError")
    ELSE Built(processed_data(r, now, normalized_data, quals, qualification_summary))

\* what the loop body can build of one row: one outcome for each value of datetime.now(),
\* each way strftime writes the year and each order of the three list(set(...))
RowRecords(r) ==
    UNION { UNION { { build_processed_data(r, now, normalized_data, quals,
                          get_qualification_summary(quals, catOrder, levelOrder)) :
                        now \in 1..MaxClock,
                        catOrder \in ListOfSet(RequiredCodeList(quals, "category_normalized")),
                        levelOrder \in ListOfSet(RequiredCodeList(quals, "level_normalized")) } :
                    normalized_data \in
                      { normalize_basic_data(r, padYear, typesOrder) :
                          padYear \in BOOLEAN,
                          typesOrder \in ListOfSet(business_types(CellOf(r, "gyoushu"))) } } :
            quals \in {extract_qualifications(qualification_text(r))} }

\* BiddingProcessingService._create_case_from_csv_row, the fields modelled (the dates are
\* not); int(row.get('文書数', 0)) if row.get('文書数') else 0 raises ValueError for NaN,
\* which is true, and for a text that is not a number
create_case_from_csv_row(r) ==
    IF "bunsho_suu" \in DOMAIN r /\ (r["bunsho_suu"].na \/ NotAnInt(r["bunsho_suu"]))
    THEN Raised("ValueError")
    ELSE Built([ case_id |-> GetOr(r, "anken_id", Str(<<>>)),
                 case_name |-> GetOr(r, "anken_mei", Str(<<>>)),
                 department_name |-> GetOr(r, "kikan_shozaichi", Null),
                 qualification_info |-> GetOr(r, "nyuusatsu_shikaku", Null),
                 business_types_raw |-> GetOr(r, "gyoushu", Null),
                 award_price_raw |-> GetOr(r, "rakusatsu_kakaku", Null),
                 document_count |-> IF "bunsho_suu" \in DOMAIN r
                                    THEN Num(ToNat(r["bunsho_suu"].s)) ELSE Num(0) ])

ColumnNames ==
    {"anken_mei", "nyuusatsu_shikaku", "gyoushu", "rakusatsu_kakaku", "anken_koujibi",
     "kikan_shozaichi", "bunsho_suu"}

\* a text of every column
ColumnText(col) ==
    CASE col = "anken_id" -> <<"1">>
      [] col = "anken_mei" -> <<"X">>
      [] col = "nyuusatsu_shikaku" ->            \* 全省庁統一資格 役務の提供 D
           <<"zen", "shou", "chou", "tou", "itsu", "shi", "kaku", " ",
             "eki", "mu", "no", "tei", "kyou3", " ", "D">>
      [] col = "gyoushu" ->                      \* ITサービス\n建設・工事
           <<"I", "T", "SA", "BAR", "BI", "SU", "\n", "ken2", "setsu", "dot", "kou", "ji">>
      [] col = "rakusatsu_kakaku" -> <<"1", "5", "0", "man", "en">>           \* 150万円
      [] col = "anken_koujibi" -> <<"2", "0", "2", "4", "/", "3", "/", "5">>  \* 2024/3/5
      [] col = "kikan_shozaichi" ->              \* 東京都府中市
           <<"higashi", "kyou4", "to", "fu2", "naka", "shi2">>
      [] col = "bunsho_suu" -> <<"3">>

\* the rows with a case id in which every other column is not in the file, empty or filled
BuildRows ==
    UNION { { [col \in present \cup {"anken_id"} |->
                 IF col \in empty THEN NoCell ELSE [na |-> FALSE, s |-> ColumnText(col)]] :
              empty \in SUBSET present } :
            present \in SUBSET ColumnNames }

InitBuild ==
    /\ pc = "build"
    /\ row \in BuildRows
    /\ built = <<>>
    /\ batch = <<>>
    /\ row_i = 0
    /\ db = <<>>
    /\ outcome = <<>>
    /\ aborted = None
    /\ input = NoCell
    /\ result = None
    /\ QualIdle
    /\ LaterIdle

\* one run of the record-building step of BiddingDataManager.process_csv_data
BuildProcessedData ==
    /\ pc = "build"
    /\ Len(built) < MaxRuns
    /\ \E out \in RowRecords(row) :
         built' = Append(built, [by |-> "process_csv_data", out |-> out])
    /\ UNCHANGED <<pc, cell, qualifications, summary, record, saved, line, line_num, parsed>>
    /\ UNCHANGED <<input, result, row, batch, row_i, db, outcome, aborted>>
    /\ UNCHANGED laterVars

\* one run of BiddingProcessingService._create_case_from_csv_row
CreateCaseFromCsvRow ==
    /\ pc = "build"
    /\ Len(built) < MaxRuns
    /\ built' = Append(built, [ by |-> "_create_case_from_csv_row",
                                out |-> create_case_from_csv_row(row) ])
    /\ UNCHANGED <<pc, cell, qualifications, summary, record, saved, line, line_num, parsed>>
    /\ UNCHANGED <<input, result, row, batch, row_i, db, outcome, aborted>>
    /\ UNCHANGED laterVars

SpecBuild == InitBuild /\ [][BuildProcessedData \/ CreateCaseFromCsvRow]_vars

----------------------------------------------------------------------------
(* Properties of record building *)

\* C18: building the output record is deterministic: two runs of the record-building step
\* on the same row give records equal in every field, the order of the lists included; no
\* field comes from the wall clock or from other state made inside the builder
C18_SameRowSameRecord ==
    \A i, j \in 1..Len(built) : built[i].by = built[j].by => built[i].out = built[j].out

IsNull(x) == x.kind = "None"

\* C19: a column that is not in the row or is empty never makes record building fail and
\* gives an absent (null) target field: whatever columns of a row with a case id are
\* missing, the builder returns a record in which every field fed by a missing column is
\* null (a list, empty), not an error, a NaN or another placeholder
C19_MissingColumnGivesNull ==
    \A i \in 1..Len(built) :
       /\ built[i].out.raised = ""
       /\ LET d == built[i].out.data[1]
          IN  IF built[i].by = "process_csv_data"
              THEN /\ IsNa(row, "anken_mei") => IsNull(d.case_name)
                   /\ IsNa(row, "kikan_shozaichi") =>
                        IsNull(d.organization.location) /\ d.organization.prefecture = None
                   /\ IsNa(row, "anken_koujibi") => d.schedule.announcement_date = None
                   /\ IsNa(row, "nyuusatsu_shikaku") =>
                        /\ IsNull(d.qualifications.requirements_raw)
                        /\ d.qualifications.requirements_parsed = <<>>
                   /\ IsNa(row, "gyoushu") =>
                        /\ IsNull(d.qualifications.business_types_raw)
                        /\ d.qualifications.business_types_normalized = <<>>
                        /\ d.qualifications.business_type = <<>>
                        /\ d.qualifications.business_type_code = <<>>
                   /\ IsNa(row, "rakusatsu_kakaku") =>
                        IsNull(d.pricing.award_price_raw) /\ d.pricing.award_price_normalized = None
                   /\ IsNa(row, "bunsho_suu") => IsNull(d.documents.count)
              ELSE /\ IsNa(row, "anken_mei") => IsNull(d.case_name)
                   /\ IsNa(row, "kikan_shozaichi") => IsNull(d.department_name)
                   /\ IsNa(row, "nyuusatsu_shikaku") => IsNull(d.qualification_info)
                   /\ IsNa(row, "gyoushu") => IsNull(d.business_types_raw)
                   /\ IsNa(row, "rakusatsu_kakaku") => IsNull(d.award_price_raw)
                   /\ IsNa(row, "bunsho_suu") => IsNull(d.document_count)

----------------------------------------------------------------------------
(* The row loops: BiddingDataManager.process_csv_data                      *)
(* (src/dags/preprocessor.py) and BiddingProcessingService.process_csv_data*)
(* (src/dags/core/services.py)                                             *)

\* the columns of bidding_cases modelled, as upsert_bidding_case writes them for a record
manager_columns(data) ==
    [case_name |-> data.case_name, document_count |-> data.documents.count]

\* the same columns as BiddingCaseRepository.upsert_bidding_case writes them for a case
service_columns(case) ==
    [case_name |-> case.case_name, document_count |-> case.document_count]

\* the table after the INSERT ... ON CONFLICT (case_id) DO UPDATE / the UPDATE or INSERT
Upsert(table, case_id, columns) ==
    [k \in DOMAIN table \cup {case_id} |-> IF k = case_id THEN columns ELSE table[k]]

\* pd.read_csv reads a 案件ID column with an empty cell as floats
IdsAreFloats(rows) == \E k \in 1..Len(rows) : IsNa(rows[k], "anken_id")

\* db_data['case_id'] = int(db_data['case_id']) of the repository raises ValueError or
\* TypeError for str(row.get('案件ID', '')) = 'nan', '1.0' or ''
InvalidCaseId(rows, r) == IdsAreFloats(rows) \/ NotAnInt(CellOf(r, "anken_id"))

\* the counting with stats['processed'] += 1 inside the branch of a successful save
CountRowProcessedIfSaved(st, what) ==
    CASE what = "skipped" -> [st EXCEPT !.skipped = @ + 1]
      [] what = "failed" -> [st EXCEPT !.failed = @ + 1]
      [] what = "saved" -> [st EXCEPT !.saved = @ + 1, !.processed = @ + 1]
      [] what = "save_failed" -> [st EXCEPT !.failed = @ + 1]

\* the stats of process_csv_data after a row: skipped (no case id), failed (an exception
\* of the loop body), saved or failed after the upsert, which both count as processed
CountRow(st, what) ==
    CASE what = "skipped" -> [st EXCEPT !.skipped = @ + 1]
      [] what = "failed" -> [st EXCEPT !.failed = @ + 1]
      [] what = "saved" -> [st EXCEPT !.saved = @ + 1, !.processed = @ + 1]
      [] what = "save_failed" -> [st EXCEPT !.failed = @ + 1, !.processed = @ + 1]

MaxBatch == 3

BatchRow(id, count) ==
    [ anken_id |-> id, anken_mei |-> [na |-> FALSE, s |-> <<"X">>], bunsho_suu |-> count ]

\* two well-formed rows, a row whose document count is not a number, a row whose
\* document count is empty, and a row without a case id
BatchRows ==
    { BatchRow([na |-> FALSE, s |-> <<"1">>], [na |-> FALSE, s |-> <<"3">>]),
      BatchRow([na |-> FALSE, s |-> <<"2">>], [na |-> FALSE, s |-> <<"5">>]),
      BatchRow([na |-> FALSE, s |-> <<"3">>], [na |-> FALSE, s |-> <<"X">>]),
      BatchRow([na |-> FALSE, s |-> <<"4">>], NoCell),
      BatchRow(NoCell, [na |-> FALSE, s |-> <<"3">>]) }

InitBatch ==
    /\ pc \in {"manager", "service"}
    /\ batch \in SeqsUpTo(BatchRows, MaxBatch) \ {<<>>}
    /\ row_i = 1
    /\ db = <<>>
    /\ outcome = <<>>
    /\ aborted = None
    /\ row = <<>>
    /\ built = <<>>
    /\ input = NoCell
    /\ result = None
    /\ QualIdle
    /\ LaterIdle

\* if pd.isna(row.get('案件ID')): stats['skipped'] += 1; continue
ManagerSkipsRow ==
    /\ pc = "manager" /\ row_i <= Len(batch)
    /\ IsNa(batch[row_i], "anken_id")
    /\ outcome' = Append(outcome, "skipped")
    /\ row_i' = row_i + 1
    /\ UNCHANGED <<pc, db, aborted>>
    /\ UNCHANGED <<cell, qualifications, summary, record, saved, line, line_num, parsed>>
    /\ UNCHANGED <<input, result, row, built, batch>>
    /\ stats' = CountRow(stats, "skipped")
    /\ UNCHANGED repoVars

\* an exception of the loop body: except Exception: stats['failed'] += 1
ManagerRowFails ==
    /\ pc = "manager" /\ row_i <= Len(batch)
    /\ ~IsNa(batch[row_i], "anken_id")
    /\ \E b \in RowRecords(batch[row_i]) : b.raised # ""
    /\ outcome' = Append(outcome, "failed")
    /\ row_i' = row_i + 1
    /\ UNCHANGED <<pc, db, aborted>>
    /\ UNCHANGED <<cell, qualifications, summary, record, saved, line, line_num, parsed>>
    /\ UNCHANGED <<input, result, row, built, batch>>
    /\ stats' = CountRow(stats, "failed")
    /\ UNCHANGED repoVars

\* self.upsert_bidding_case(processed_data) returns True: stats['saved'] += 1
ManagerSavesRow ==
    /\ pc = "manager" /\ row_i <= Len(batch)
    /\ ~IsNa(batch[row_i], "anken_id")
    /\ \E b \in RowRecords(batch[row_i]) :
         /\ b.raised = ""
         /\ db' = Upsert(db, b.data[1].case_id, manager_columns(b.data[1]))
    /\ outcome' = Append(outcome, "saved")
    /\ row_i' = row_i + 1
    /\ UNCHANGED <<pc, aborted>>
    /\ UNCHANGED <<cell, qualifications, summary, record, saved, line, line_num, parsed>>
    /\ UNCHANGED <<input, result, row, built, batch>>
    /\ stats' = CountRow(stats, "saved")
    /\ UNCHANGED repoVars

\* self.upsert_bidding_case(processed_data) catches a database error and returns False:
\* stats['failed'] += 1
ManagerSaveFails ==
    /\ pc = "manager" /\ row_i <= Len(batch)
    /\ ~IsNa(batch[row_i], "anken_id")
    /\ \E b \in RowRecords(batch[row_i]) : b.raised = ""
    /\ outcome' = Append(outcome, "save_failed")
    /\ row_i' = row_i + 1
    /\ UNCHANGED <<pc, db, aborted>>
    /\ UNCHANGED <<cell, qualifications, summary, record, saved, line, line_num, parsed>>
    /\ UNCHANGED <<input, result, row, built, batch>>
    /\ stats' = CountRow(stats, "save_failed")
    /\ UNCHANGED repoVars

\* the loop of the service is over the rows: _create_case_from_csv_row raises, and the
\* exception leaves process_csv_data (except Exception: ... raise)
ServiceRowRaises ==
    /\ pc = "service" /\ row_i <= Len(batch)
    /\ create_case_from_csv_row(batch[row_i]).raised # ""
    /\ aborted' = Some(create_case_from_csv_row(batch[row_i]).raised)
    /\ pc' = "batch_aborted"
    /\ UNCHANGED <<row_i, db, outcome>>
    /\ UNCHANGED <<cell, qualifications, summary, record, saved, line, line_num, parsed>>
    /\ UNCHANGED <<input, result, row, built, batch>>
    /\ UNCHANGED laterVars

\* self.case_repo.upsert_bidding_case(case.to_dict()) returns (False, False): the case id
\* is not a number
ServiceRowNotSaved ==
    /\ pc = "service" /\ row_i <= Len(batch)
    /\ create_case_from_csv_row(batch[row_i]).raised = ""
    /\ InvalidCaseId(batch, batch[row_i])
    /\ outcome' = Append(outcome, "save_failed")
    /\ row_i' = row_i + 1
    /\ UNCHANGED <<pc, db, aborted>>
    /\ UNCHANGED <<cell, qualifications, summary, record, saved, line, line_num, parsed>>
    /\ UNCHANGED <<input, result, row, built, batch>>
    /\ UNCHANGED laterVars

\* self.case_repo.upsert_bidding_case(case.to_dict()) returns (True, is_new)
ServiceSavesRow ==
    /\ pc = "service" /\ row_i <= Len(batch)
    /\ create_case_from_csv_row(batch[row_i]).raised = ""
    /\ ~InvalidCaseId(batch, batch[row_i])
    /\ db' = Upsert(db, ToNat(batch[row_i]["anken_id"].s),
                    service_columns(create_case_from_csv_row(batch[row_i]).data[1]))
    /\ outcome' = Append(outcome, "saved")
    /\ row_i' = row_i + 1
    /\ UNCHANGED <<pc, aborted>>
    /\ UNCHANGED <<cell, qualifications, summary, record, saved, line, line_num, parsed>>
    /\ UNCHANGED <<input, result, row, built, batch>>
    /\ UNCHANGED laterVars

\* cursor.execute of the repository raises a database error, which nothing catches
\* before it leaves process_csv_data
ServiceSaveRaises ==
    /\ pc = "service" /\ row_i <= Len(batch)
    /\ create_case_from_csv_row(batch[row_i]).raised = ""
    /\ ~InvalidCaseId(batch, batch[row_i])
    /\ aborted' = Some("DatabaseError")
    /\ pc' = "batch_aborted"
    /\ UNCHANGED <<row_i, db, outcome>>
    /\ UNCHANGED <<cell, qualifications, summary, record, saved, line, line_num, parsed>>
    /\ UNCHANGED <<input, result, row, built, batch>>
    /\ UNCHANGED laterVars

\* the for loop is over: the job is logged and the counts are returned
BatchDone ==
    /\ pc \in {"manager", "service"} /\ row_i > Len(batch)
    /\ pc' = "batch_done"
    /\ UNCHANGED <<row_i, db, outcome, aborted>>
    /\ UNCHANGED <<cell, qualifications, summary, record, saved, line, line_num, parsed>>
    /\ UNCHANGED <<input, result, row, built, batch>>
    /\ UNCHANGED laterVars

NextBatch ==
    \/ ManagerSkipsRow
    \/ ManagerRowFails
    \/ ManagerSavesRow
    \/ ManagerSaveFails
    \/ ServiceRowRaises
    \/ ServiceRowNotSaved
    \/ ServiceSavesRow
    \/ ServiceSaveRaises
    \/ BatchDone

SpecBatch == InitBatch /\ [][NextBatch]_vars

----------------------------------------------------------------------------
(* Properties of the row loops *)

\* a row with a case id and, if it has a document count, a number as count
WellFormed(r) ==
    /\ ~IsNa(r, "anken_id") /\ ~NotAnInt(r["anken_id"])
    /\ IsNa(r, "bunsho_suu") \/ ~NotAnInt(r["bunsho_suu"])

\* the columns a well-formed row is saved with when it is alone in the batch
ColumnsOf(r) ==
    [ case_name |-> Str(r["anken_mei"].s),
      document_count |-> IF IsNa(r, "bunsho_suu") THEN Num(0) ELSE Num(ToNat(r["bunsho_suu"].s)) ]

\* C20: a failure while one row of a batch is processed (a field of the wrong shape, a
\* failed save) never aborts the batch: no exception leaves the loop, every row of the batch
\* is gone through, and every well-formed row is processed and saved as it is without
\* the failing row
C20_FailingRowDoesNotAbort ==
    /\ aborted = None
    /\ pc \in {"batch_done", "batch_aborted"} =>
         /\ Len(outcome) = Len(batch)
         /\ \A j \in 1..Len(batch) :
              WellFormed(batch[j]) =>
                /\ outcome[j] \in {"saved", "save_failed"}
                /\ ( /\ outcome[j] = "saved"
                     /\ \A k \in (j + 1)..Len(batch) :
                          outcome[k] = "saved" => batch[k]["anken_id"] # batch[j]["anken_id"] )
                   => db[ToNat(batch[j]["anken_id"].s)] = ColumnsOf(batch[j])

\* C28: when BiddingDataManager.process_csv_data returns, every row of the file has been
\* counted in exactly one of skipped, saved and failed, processed counts the rows for which
\* a save was attempted, and a row without a case id is counted as skipped and not saved
C28_EveryRowCountedOnce ==
    (pc = "batch_done" /\ Len(outcome) = Len(batch) /\ stats # NoStats) =>
        /\ stats.skipped + stats.saved + stats.failed = Len(batch)
        /\ stats.skipped = Cardinality({j \in 1..Len(batch) : outcome[j] = "skipped"})
        /\ stats.saved = Cardinality({j \in 1..Len(batch) : outcome[j] = "saved"})
        /\ stats.failed =
             Cardinality({j \in 1..Len(batch) : outcome[j] \in {"failed", "save_failed"}})
        /\ stats.processed =
             Cardinality({j \in 1..Len(batch) : outcome[j] \in {"saved", "save_failed"}})
        /\ \A j \in 1..Len(batch) :
             IsNa(batch[j], "anken_id") <=>  outcome[j] = "skipped"
        /\ \A k \in DOMAIN db : \E j \in 1..Len(batch) :
             ~IsNa(batch[j], "anken_id") /\ ToNat(batch[j]["anken_id"].s) = k

\* a file of three rows has been gone through: one row skipped, one saved, one failed
C28_Witness ==
    /\ pc = "batch_done"
    /\ stats = [processed |-> 1, saved |-> 1, failed |-> 1, skipped |-> 1]

----------------------------------------------------------------------------
(* FileNaming.sanitize_filename (src/dags/utils/file_naming.py)            *)

\* the characters of the model that [^\w\s\-\.] matches: neither a word character (a
\* letter of any script, a digit, '_'), nor whitespace, nor '-' or '.'
UnsafeChars == {"/", ":", "*", "?", "<", ">", "|"}

\* re.sub(r'[^\w\s\-\.]', '_', filename)
ReplaceUnsafe(s) == [i \in 1..Len(s) |-> IF s[i] \in UnsafeChars THEN "_" ELSE s[i]]

\* the sanitizer without its second step: runs of underscores are left as they are
KeepUnderscores(s) == s

\* re.sub(r'_+', '_', safe_name)
RECURSIVE CollapseUnderscores(_)
CollapseUnderscores(s) ==
    IF s = <<>> THEN <<>>
    ELSE IF Head(s) = "_" /\ Len(s) > 1 /\ s[2] = "_" THEN CollapseUnderscores(Tail(s))
    ELSE <<Head(s)>> \o CollapseUnderscores(Tail(s))

\* str.strip('_')
RECURSIVE StripUnderscores(_)
StripUnderscores(s) ==
    IF s # <<>> /\ Head(s) = "_" THEN StripUnderscores(Tail(s))
    ELSE IF s # <<>> /\ s[Len(s)] = "_" THEN StripUnderscores(SubSeq(s, 1, Len(s) - 1))
    ELSE s

sanitize_filename(filename) ==
    StripUnderscores(CollapseUnderscores(Strip(ReplaceUnsafe(filename))))

MaxNameLen == 4

\* a Latin letter, a Japanese letter (案), '_', two kinds of whitespace, '-', '.', and
\* two unsafe characters
NameAlphabet == {"a", "an", "_", " ", "IDSP", "-", ".", "/", "*"}

\* the file names of test_sanitize_filename
NameExamples ==
    { <<"f", "i", "l", "e", "/", "n", "a", "m", "e">>,
      <<"f", "i", "l", "e", ":", "n", "a", "m", "e">>,
      <<"f", "i", "l", "e", "?", "n", "a", "m", "e">>,
      <<"f", "i", "l", "e", "<", ">", "n", "a", "m", "e">>,
      <<"f", "i", "l", "e", "|", "n", "a", "m", "e">>,
      <<"f", "i", "l", "e", "_", "_", "_", "n", "a", "m", "e">>,
      <<"_", "f", "i", "l", "e", "_", "n", "a", "m", "e", "_">>,
      <<"an", "ken", "_", "2", "0", "2", "4">> }

NameTexts == SeqsUpTo(NameAlphabet, MaxNameLen) \cup NameExamples

InitFilename ==
    /\ pc = "filename"
    /\ input \in {[na |-> FALSE, s |-> s] : s \in NameTexts}
    /\ result = None
    /\ BuildIdle
    /\ QualIdle
    /\ LaterIdle

SanitizeFilename ==
    /\ pc = "filename"
    /\ result' = Some(sanitize_filename(input.s))
    /\ pc' = "filename_done"
    /\ UNCHANGED <<cell, qualifications, summary, record, saved, line, line_num, parsed>>
    /\ UNCHANGED <<input, buildVars, laterVars>>

SpecFilename == InitFilename /\ [][SanitizeFilename]_vars

----------------------------------------------------------------------------
(* Properties of sanitize_filename *)

IsUnsafeOrUnderscore(ch) == ch \in UnsafeChars \cup {"_"}

\* s with every maximal run of unsafe characters and underscores replaced by one '_';
\* inRun says that the character before s belongs to such a run
RECURSIVE RunsToUnderscore(_, _)
RunsToUnderscore(s, inRun) ==
    IF s = <<>> THEN <<>>
    ELSE IF IsUnsafeOrUnderscore(Head(s))
         THEN (IF inRun THEN <<>> ELSE <<"_">>) \o RunsToUnderscore(Tail(s), TRUE)
         ELSE <<Head(s)>> \o RunsToUnderscore(Tail(s), FALSE)

\* a run at the very beginning or the very end of the name leaves nothing
WithoutEdgeUnderscore(s) ==
    LET a == IF s # <<>> /\ Head(s) = "_" THEN 2 ELSE 1
        b == IF Len(s) >= a /\ s[Len(s)] = "_" THEN Len(s) - 1 ELSE Len(s)
    IN  SubSeq(s, a, b)

\* only word characters, whitespace, '-' and '.'; no two underscores in a row; no
\* underscore first or last
SafeName(s) ==
    /\ \A i \in 1..Len(s) : s[i] \notin UnsafeChars
    /\ \A i \in 1..(Len(s) - 1) : ~(s[i] = "_" /\ s[i + 1] = "_")
    /\ s # <<>> => s[1] # "_" /\ s[Len(s)] # "_"

\* C25: for every input the result is a safe name, every maximal run of unsafe characters
\* and underscores inside the name has become a single '_', and the safe characters
\* are kept unchanged and in order
C25_SafeCharactersAllKept ==
    result # None =>
        /\ SafeName(result[1])
        /\ result[1] = WithoutEdgeUnderscore(RunsToUnderscore(input.s, FALSE))

\* C25 (amended): the result is a safe name; it is the input without its leading and
\* trailing whitespace, with every maximal run of unsafe characters and underscores
\* replaced by a single '_' and a run at either end of the stripped name removed
C25_SafeCharactersKeptButEdgeWhitespace ==
    result # None =>
        /\ SafeName(result[1])
        /\ result[1] = WithoutEdgeUnderscore(RunsToUnderscore(Strip(input.s), FALSE))

\* a name with leading whitespace, an unsafe run and an underscore run: ' a/*_a' -> 'a_a'
C25_Witness ==
    /\ pc = "filename_done"
    /\ \E k \in 2..Len(input.s) : IsSpace(input.s[1]) /\ input.s[k] \in UnsafeChars
    /\ result = Some(<<"a", "_", "a">>)
----------------------------------------------------------------------------
(* NJSSAuthenticationService (src/dags/core/authentication.py)             *)

\* URLs are sequences of characters
logged_in_patterns ==
    << <<"/", "u", "s", "e", "r", "s", "/", "h", "o", "m", "e">>,
       <<"/", "m", "y", "p", "a", "g", "e">>,
       <<"/", "d", "a", "s", "h", "b", "o", "a", "r", "d">>,
       <<"/", "o", "f", "f", "e", "r", "s", "/", "v", "i", "e", "w">>,
       <<"/", "o", "f", "f", "e", "r", "s", "/", "s", "e", "a", "r", "c", "h">> >>

Lit_users == <<"/", "u", "s", "e", "r", "s", "/">>
Lit_users_login == <<"/", "u", "s", "e", "r", "s", "/", "l", "o", "g", "i", "n">>
Lit_users_signup == <<"/", "u", "s", "e", "r", "s", "/", "s", "i", "g", "n", "u", "p">>
Lit_njss_info == <<"n", "j", "s", "s", ".", "i", "n", "f", "o">>
Lit_login == <<"/", "l", "o", "g", "i", "n">>
Www2Root == <<"h", "t", "t", "p", "s", ":", "/", "/", "w", "w", "w", "2", ".", "n", "j", "s", "s", ".", "i", "n", "f", "o", "/">>
WwwRoot == <<"h", "t", "t", "p", "s", ":", "/", "/", "w", "w", "w", ".", "n", "j", "s", "s", ".", "i", "n", "f", "o", "/">>
LoginUrl == <<"h", "t", "t", "p", "s", ":", "/", "/", "w", "w", "w", "2", ".", "n", "j", "s", "s", ".", "i", "n", "f", "o", "/", "u", "s", "e", "r", "s", "/", "l", "o", "g", "i", "n">>
HomeUrl == <<"h", "t", "t", "p", "s", ":", "/", "/", "w", "w", "w", "2", ".", "n", "j", "s", "s", ".", "i", "n", "f", "o", "/", "u", "s", "e", "r", "s", "/", "h", "o", "m", "e">>
SearchUrl == <<"h", "t", "t", "p", "s", ":", "/", "/", "w", "w", "w", ".", "n", "j", "s", "s", ".", "i", "n", "f", "o", "/", "o", "f", "f", "e", "r", "s", "/">>

\* str.replace(lit, ''): every occurrence, left to right
RECURSIVE RemoveAll(_, _)
RemoveAll(s, lit) ==
    IF s = <<>> THEN <<>>
    ELSE IF LitAt(lit, s, 1) THEN RemoveAll(SubSeq(s, Len(lit) + 1, Len(s)), lit)
    ELSE <<Head(s)>> \o RemoveAll(Tail(s), lit)

\* str.strip('/')
RECURSIVE StripSlashes(_)
StripSlashes(s) ==
    IF s # <<>> /\ Head(s) = "/" THEN StripSlashes(Tail(s))
    ELSE IF s # <<>> /\ s[Len(s)] = "/" THEN StripSlashes(SubSeq(s, 1, Len(s) - 1))
    ELSE s

\* the third test of _is_logged_in: on the main site, not on a login page, and not the
\* root page https://www2.njss.info/
OnSpecificPage(url) ==
    /\ Contains(url, Lit_njss_info) /\ ~Contains(url, Lit_login) /\ url # Www2Root
    /\ Len(StripSlashes(RemoveAll(url, Www2Root))) > 0

is_logged_in(url) ==
    \/ \E k \in 1..Len(logged_in_patterns) : Contains(url, logged_in_patterns[k])
    \/ Contains(url, Lit_users) /\ ~Contains(url, Lit_users_login)
         /\ ~Contains(url, Lit_users_signup)
    \/ OnSpecificPage(url)

MaxUrlParts == 2

UrlHosts ==
    { <<"h", "t", "t", "p", "s", ":", "/", "/", "w", "w", "w", ".", "n", "j", "s", "s", ".", "i", "n", "f", "o">>,
      <<"h", "t", "t", "p", "s", ":", "/", "/", "w", "w", "w", "2", ".", "n", "j", "s", "s", ".", "i", "n", "f", "o">>,
      <<"h", "t", "t", "p", "s", ":", "/", "/", "e", "x", "a", "m", "p", "l", "e", ".", "c", "o", "m">> }

UrlParts ==
    { <<"/">>,
      <<"/", "u", "s", "e", "r", "s", "/", "h", "o", "m", "e">>,
      <<"/", "u", "s", "e", "r", "s", "/", "p", "r", "o", "f", "i", "l", "e">>,
      <<"/", "u", "s", "e", "r", "s", "/", "l", "o", "g", "i", "n">>,
      <<"/", "u", "s", "e", "r", "s", "/", "s", "i", "g", "n", "u", "p">>,
      <<"/", "m", "y", "p", "a", "g", "e">>,
      <<"/", "d", "a", "s", "h", "b", "o", "a", "r", "d">>,
      <<"/", "o", "f", "f", "e", "r", "s", "/", "v", "i", "e", "w", "/", "1">>,
      <<"/", "o", "f", "f", "e", "r", "s", "/", "s", "e", "a", "r", "c", "h">>,
      <<"/", "l", "o", "g", "i", "n">>,
      <<"/", "a", "b", "o", "u", "t">> }

\* the URLs given to _is_logged_in: a host followed by up to MaxUrlParts path parts
RECURSIVE UrlPaths(_)
UrlPaths(n) ==
    IF n = 0 THEN {<<>>}
    ELSE UrlPaths(n - 1) \cup {p \o q : p \in UrlPaths(n - 1), q \in UrlParts}

Urls == {h \o p : h \in UrlHosts, p \in UrlPaths(MaxUrlParts)}

InitLoggedIn ==
    /\ pc = "url"
    /\ input \in {[na |-> FALSE, s |-> u] : u \in Urls}
    /\ result = None
    /\ BuildIdle
    /\ QualIdle
    /\ LaterIdle

\* self._is_logged_in(url)
IsLoggedIn ==
    /\ pc = "url"
    /\ result' = Some(is_logged_in(input.s))
    /\ pc' = "url_done"
    /\ UNCHANGED <<cell, qualifications, summary, record, saved, line, line_num, parsed>>
    /\ UNCHANGED <<input, buildVars, laterVars>>

SpecLoggedIn == InitLoggedIn /\ [][IsLoggedIn]_vars

\* the pages the browser can be on before, during and after login
LoginPages == {LoginUrl, HomeUrl, SearchUrl, WwwRoot, Www2Root}

\* the cookie lists of the model: none, the session cookie, a cookie of an earlier login
CookieLists == {<<>>, <<"session">>, <<"earlier">>}

InitLogin ==
    /\ pc = "login"
    /\ page_url \in LoginPages
    /\ cookies = <<>>
    /\ context_cookies \in CookieLists
    /\ last_call = [op |-> "none"]
    /\ stats = NoStats
    /\ tables = <<>> /\ hashseed = 0 /\ queue = <<>> /\ outputs = <<>>
    /\ extracted = {} /\ calls = <<>> /\ cases = <<>> /\ attempted = {}
    /\ read_verdict = <<>> /\ bidding_cases = <<>>
    /\ input = NoCell
    /\ result = None
    /\ BuildIdle
    /\ QualIdle

\* login touches nothing but the page and the cookies
LoginFrame ==
    /\ UNCHANGED <<cell, qualifications, summary, record, saved, line, line_num, parsed>>
    /\ UNCHANGED <<input, result, buildVars, stats>>
    /\ UNCHANGED <<tables, hashseed, queue, outputs, extracted, calls, cases, attempted,
                   read_verdict, bidding_cases>>

\* what a call of login leaves behind: its result and the cookies stored before it
LoginCall(res) == [op |-> "login", result |-> res, cookies_before |-> cookies]

\* page.url after `if login_url not in current_url: await page.goto(login_url, ...)`
UrlsAfterGoto == IF Contains(page_url, LoginUrl) THEN {page_url} ELSE LoginPages

\* lines 41-44: the page is on a logged-in URL already
LoginAlreadyLoggedIn ==
    /\ pc = "login"
    /\ is_logged_in(page_url)
    /\ last_call' = LoginCall("True")
    /\ UNCHANGED <<pc, page_url, cookies, context_cookies>>
    /\ LoginFrame

\* lines 49-58: the navigation to the login page ends on a logged-in URL
LoginAfterNavigation ==
    /\ pc = "login"
    /\ ~is_logged_in(page_url)
    /\ \E u \in UrlsAfterGoto :
         /\ is_logged_in(u)
         /\ page_url' = u
    /\ last_call' = LoginCall("True")
    /\ UNCHANGED <<pc, cookies, context_cookies>>
    /\ LoginFrame

\* lines 63-69: no login form appears, and the page is on a logged-in URL by then
LoginFormMissing ==
    /\ pc = "login"
    /\ ~is_logged_in(page_url)
    /\ \E u \in UrlsAfterGoto, v \in LoginPages :
         /\ ~is_logged_in(u)
         /\ is_logged_in(v)
         /\ page_url' = v
    /\ last_call' = LoginCall("True")
    /\ UNCHANGED <<pc, cookies, context_cookies>>
    /\ LoginFrame

\* lines 87-89: _fill_credentials finds no field or fails, login returns False
LoginCredentialsFail ==
    /\ pc = "login"
    /\ ~is_logged_in(page_url)
    /\ \E u \in UrlsAfterGoto :
         /\ ~is_logged_in(u)
         /\ page_url' = u
    /\ last_call' = LoginCall("False")
    /\ UNCHANGED <<pc, cookies, context_cookies>>
    /\ LoginFrame

\* lines 92-114: the form is submitted; the site sets its cookies and the page ends on
\* final_url; on a logged-in URL the cookies of the context are stored
LoginSubmitted ==
    /\ pc = "login"
    /\ ~is_logged_in(page_url)
    /\ \E u \in UrlsAfterGoto, final_url \in LoginPages, site_cookies \in CookieLists :
         /\ ~is_logged_in(u)
         /\ page_url' = final_url
         /\ context_cookies' = site_cookies
         /\ IF is_logged_in(final_url)
            THEN cookies' = site_cookies /\ last_call' = LoginCall("True")
            ELSE cookies' = cookies /\ last_call' = LoginCall("False")
    /\ UNCHANGED pc
    /\ LoginFrame

\* lines 50, 78, 180 and 116-118: page.goto times out, no form or no submit button is
\* found; the exception is logged and raised again
LoginRaises ==
    /\ pc = "login"
    /\ ~is_logged_in(page_url)
    /\ \E u \in UrlsAfterGoto :
         /\ ~is_logged_in(u)
         /\ page_url' = u
    /\ last_call' = LoginCall("raised")
    /\ UNCHANGED <<pc, cookies, context_cookies>>
    /\ LoginFrame

\* between two calls of login the browser goes to another page
PageMoves ==
    /\ pc = "login"
    /\ last_call.op = "login"
    /\ \E u \in LoginPages : page_url' = u
    /\ last_call' = [op |-> "none"]
    /\ UNCHANGED <<pc, cookies, context_cookies>>
    /\ LoginFrame

NextLogin ==
    \/ LoginAlreadyLoggedIn
    \/ LoginAfterNavigation
    \/ LoginFormMissing
    \/ LoginCredentialsFail
    \/ LoginSubmitted
    \/ LoginRaises
    \/ PageMoves

SpecLogin == InitLogin /\ [][NextLogin]_vars

----------------------------------------------------------------------------
(* Properties of NJSSAuthenticationService *)

AuthenticatedPages == { s \in Urls : \E h \in UrlHosts :
                          s \in { h \o <<"/", "u", "s", "e", "r", "s", "/", "h", "o", "m", "e">>,
                                  h \o <<"/", "u", "s", "e", "r", "s", "/", "p", "r", "o", "f",
                                         "i", "l", "e">> } }

LoginPageUrls == { s \in Urls : \E h \in UrlHosts : s = h \o Lit_users_login }

SiteRoots == {WwwRoot, Www2Root}

\* C26: _is_logged_in is True for the URLs of authenticated pages (.../users/home,
\* .../users/profile) and False for the login page (.../users/login) and for the bare
\* site root
C26_NotLoggedInOnLoginOrRoot ==
    result # None =>
        /\ input.s \in AuthenticatedPages => result[1] = TRUE
        /\ input.s \in LoginPageUrls => result[1] = FALSE
        /\ input.s \in SiteRoots => result[1] = FALSE

\* C24: whenever login has returned True the service holds the cookies of the browser
\* context, a non-empty list; when it has returned False or raised, the stored cookies
\* are as they were before the call
C24_TrueLoginHoldsSessionCookies ==
    last_call.op = "login" =>
        /\ last_call.result = "True" => cookies = context_cookies /\ cookies # <<>>
        /\ last_call.result \in {"False", "raised"} => cookies = last_call.cookies_before

----------------------------------------------------------------------------
(* BiddingCaseRepository (src/dags/db/repositories.py)                      *)
(*                                                                          *)
(* bidding_cases is the list of the table's rows in the order they were     *)
(* inserted; a row is [case_id, case_name, document_directory,              *)
(* document_count, llm_extracted_data, created_at], a column that is NULL   *)
(* is None.  created_at (server default now()) is the number of the insert. *)

\* the part of int(text) after the sign
IntBody(t) == IF t # <<>> /\ Head(t) \in {"+", "-"} THEN Tail(t) ELSE t

\* digits, where single underscores may stand between two digits
IsIntBody(b) ==
    /\ b # <<>>
    /\ IsDigit(b[1])
    /\ IsDigit(b[Len(b)])
    /\ \A i \in 1..Len(b) : IsDigit(b[i]) \/ (b[i] = "_" /\ IsDigit(b[i + 1]))

\* int(text): Some(n), or None where Python raises ValueError
int_text(s) ==
    IF IsIntBody(IntBody(Strip(s)))
    THEN Some((IF Head(Strip(s)) = "-" THEN -1 ELSE 1)
              * ToNat(SelectSeq(IntBody(Strip(s)), IsDigit)))
    ELSE None

\* the positions of the rows WHERE case_id = %s
RowsOf(table, case_id) == {i \in 1..Len(table) : table[i].case_id = case_id}

\* cursor.fetchone() is not None after SELECT case_id ... WHERE case_id = %s
RowNeverExists(table, case_id) == FALSE
RowExists(table, case_id) == RowsOf(table, case_id) # {}

\* a column of the row after UPDATE ... SET: only the fields of db_data are set, and
\* db_data holds no field whose value in case_data is None
SetColumn(old, new) == IF new = None THEN old ELSE new

\* UPDATE bidding_cases SET ... WHERE case_id = %s
UpdateRows(table, case_id, case_data) ==
    [i \in 1..Len(table) |->
        IF table[i].case_id = case_id
        THEN [table[i] EXCEPT
                !.case_name = SetColumn(@, case_data.case_name),
                !.document_directory = SetColumn(@, case_data.document_directory),
                !.document_count = SetColumn(@, case_data.document_count)]
        ELSE table[i]]

\* the row of INSERT INTO bidding_cases (fields) VALUES (...): the other columns are NULL
NewRow(table, case_id, case_data) ==
    [case_id |-> case_id,
     case_name |-> case_data.case_name,
     document_directory |-> case_data.document_directory,
     document_count |-> case_data.document_count,
     llm_extracted_data |-> None,
     created_at |-> Len(table) + 1]

\* what upsert_bidding_case(case_data) returns, the statements it executes and the table
\* it leaves
upsert_bidding_case(table, case_data) ==
    IF int_text(case_data.case_id) = None
    THEN [result |-> <<FALSE, FALSE>>, statements |-> <<>>, table |-> table]
    ELSE IF RowExists(table, int_text(case_data.case_id)[1])
    THEN [result |-> <<TRUE, FALSE>>, statements |-> <<"SELECT", "UPDATE">>,
          table |-> UpdateRows(table, int_text(case_data.case_id)[1], case_data)]
    ELSE [result |-> <<TRUE, TRUE>>, statements |-> <<"SELECT", "INSERT">>,
          table |-> Append(table, NewRow(table, int_text(case_data.case_id)[1], case_data))]

\* WHERE llm_extracted_data IS NULL AND document_directory IS NOT NULL AND document_count > 0
SelectsAnyRow(r) == TRUE
IsUnprocessed(r) ==
    /\ r.llm_extracted_data = None
    /\ r.document_directory # None
    /\ r.document_count # None
    /\ r.document_count[1] > 0

\* ORDER BY created_at DESC
RECURSIVE NewestFirst(_)
NewestFirst(rows) ==
    IF rows = {} THEN <<>>
    ELSE LET newest == CHOOSE r \in rows : \A q \in rows : q.created_at <= r.created_at
         IN  <<newest>> \o NewestFirst(rows \ {newest})

\* LIMIT %s
Limit(s, limit) == SubSeq(s, 1, IF Len(s) < limit THEN Len(s) ELSE limit)

\* the list find_unprocessed_cases(limit) returns
find_unprocessed_cases(table, limit) ==
    LET results == Limit(NewestFirst({table[i] : i \in {j \in 1..Len(table) :
                                                         IsUnprocessed(table[j])}}), limit)
    IN  [k \in 1..Len(results) |->
            [case_id |-> results[k].case_id,
             document_directory |-> results[k].document_directory,
             document_count |-> results[k].document_count]]

\* UPDATE bidding_cases SET llm_extracted_data = %s ... WHERE case_id = %s
SetExtraction(table, case_id, extracted_data) ==
    [i \in 1..Len(table) |->
        IF table[i].case_id = case_id
        THEN [table[i] EXCEPT !.llm_extracted_data = Some(extracted_data)]
        ELSE table[i]]

\* the case ids, limits and values of the calls
MaxCaseId == 2
MaxLimit == 2

CaseIdTexts ==
    {<<Digits[n + 1]>> : n \in 1..MaxCaseId}
        \cup {<<" ", "1">>, <<"x">>, <<>>, <<"1", ".", "0">>}

\* case_data of the callers: a case_id text, the case's name, and the document fields,
\* which are None as long as no document has been downloaded
CaseData ==
    [case_id : CaseIdTexts,
     case_name : {Some("name")},
     document_directory : {None, Some("dir")},
     document_count : {None, Some(0), Some(2)}]

\* json.dumps(extracted_data): of a dict, and of None ('null', which is not SQL NULL)
ExtractedData == {"{...}", "null"}

InitRepository ==
    /\ pc = "repository"
    /\ OtherIdle
    /\ QualIdle

\* the repository touches nothing but the table
RepositoryFrame ==
    /\ UNCHANGED <<pc, cell, qualifications, summary, record, saved, line, line_num, parsed>>
    /\ UNCHANGED <<input, result, buildVars, stats>>
    /\ UNCHANGED <<tables, hashseed, queue, outputs, calls, cookies, page_url,
                   context_cookies, cases, attempted, read_verdict>>

\* repo.upsert_bidding_case(case_data)
UpsertBiddingCase ==
    /\ pc = "repository"
    /\ \E case_data \in CaseData :
         \E done \in {upsert_bidding_case(bidding_cases, case_data)} :
            /\ bidding_cases' = done.table
            /\ last_call' = [op |-> "upsert", case_id |-> case_data.case_id,
                             result |-> done.result, statements |-> done.statements,
                             before |-> bidding_cases]
    /\ UNCHANGED extracted
    /\ RepositoryFrame

\* repo.find_unprocessed_cases(limit)
FindUnprocessedCases ==
    /\ pc = "repository"
    /\ \E limit \in 1..MaxLimit :
         last_call' = [op |-> "find", limit |-> limit,
                       result |-> find_unprocessed_cases(bidding_cases, limit)]
    /\ UNCHANGED <<bidding_cases, extracted>>
    /\ RepositoryFrame

\* repo.update_llm_extraction(case_id, extracted_data)
UpdateLlmExtraction ==
    /\ pc = "repository"
    /\ \E case_id \in CaseIdTexts, extracted_data \in ExtractedData :
         \E n \in {int_text(case_id)} :
            IF n = None
            THEN /\ last_call' = [op |-> "update_llm", case_id |-> case_id, result |-> FALSE]
                 /\ UNCHANGED <<bidding_cases, extracted>>
            ELSE /\ bidding_cases' = SetExtraction(bidding_cases, n[1], extracted_data)
                 /\ last_call' = [op |-> "update_llm", case_id |-> case_id,
                                  result |-> RowsOf(bidding_cases, n[1]) # {}]
                 /\ extracted' = IF RowsOf(bidding_cases, n[1]) # {}
                                 THEN extracted \cup {n[1]} ELSE extracted
    /\ RepositoryFrame

NextRepository ==
    \/ UpsertBiddingCase
    \/ FindUnprocessedCases
    \/ UpdateLlmExtraction

SpecRepository == InitRepository /\ [][NextRepository]_vars

----------------------------------------------------------------------------
(* Properties of BiddingCaseRepository *)

C23_FindReturnsOnlyUnprocessed ==
    last_call.op = "find" =>
        /\ Len(last_call.result) <= last_call.limit
        /\ \A k \in 1..Len(last_call.result) :
             /\ last_call.result[k].document_directory # None
             /\ last_call.result[k].document_count # None
             /\ last_call.result[k].document_count[1] > 0
             /\ last_call.result[k].case_id \notin extracted
             /\ \E i \in RowsOf(bidding_cases, last_call.result[k].case_id) :
                  bidding_cases[i].llm_extracted_data = None

\* after an extraction was stored for one case, find returns the other case alone
C23_Witness ==
    /\ last_call.op = "find"
    /\ extracted # {}
    /\ Len(last_call.result) = 1
    /\ \E i \in 1..Len(bidding_cases) :
         /\ bidding_cases[i].case_id \in extracted
         /\ bidding_cases[i].document_directory # None
         /\ bidding_cases[i].document_count = Some(2)

----------------------------------------------------------------------------
(* Two upsert_bidding_case calls at the same time                           *)
(*                                                                          *)
(* Every call has a connection of its own (get_connection opens one per     *)
(* call), so a call reads the rows that are committed; its own statement    *)
(* takes effect for the others when get_cursor commits.  case_id is unique  *)
(* (src/api/src/models.py:15): an INSERT or UPDATE of an id waits while     *)
(* another connection holds an uncommitted write of that id, and an INSERT  *)
(* of an id that has a row raises UniqueViolation.                          *)

\* the case_data of the concurrent calls
ConcurrentCaseData ==
    {d \in CaseData : d.case_id \in {<<"1">>, <<"2">>} /\ d.document_count # Some(0)}

\* the tables the calls start on: empty, or holding case 1 already
StartTables ==
    {<<>>, <<NewRow(<<>>, 1, [case_id |-> <<"1">>, case_name |-> Some("name"),
                              document_directory |-> None, document_count |-> None])>>}

\* the number of calls in flight
Callers == 1..2

InitConcurrent ==
    /\ pc = "concurrent"
    /\ bidding_cases \in StartTables
    /\ \E d1 \in ConcurrentCaseData, d2 \in ConcurrentCaseData :
         calls = [c \in Callers |->
                    [at |-> "start", case_data |-> IF c = 1 THEN d1 ELSE d2,
                     case_id |-> int_text((IF c = 1 THEN d1 ELSE d2).case_id)[1],
                     exists |-> FALSE, statement |-> "none", result |-> None,
                     before |-> bidding_cases]]
    /\ input = NoCell
    /\ result = None
    /\ BuildIdle
    /\ QualIdle
    /\ stats = NoStats
    /\ tables = <<>> /\ hashseed = 0 /\ queue = <<>> /\ outputs = <<>>
    /\ last_call = [op |-> "none"] /\ extracted = {}
    /\ cookies = <<>> /\ page_url = <<>> /\ context_cookies = <<>>
    /\ cases = <<>> /\ attempted = {} /\ read_verdict = <<>>

ConcurrentFrame ==
    /\ UNCHANGED <<pc, cell, qualifications, summary, record, saved, line, line_num, parsed>>
    /\ UNCHANGED <<input, result, buildVars, stats>>
    /\ UNCHANGED <<tables, hashseed, queue, outputs, last_call, extracted, cookies,
                   page_url, context_cookies, cases, attempted, read_verdict>>

\* another connection holds an uncommitted write of the row of case_id
WriteLocked(c, case_id) ==
    \E o \in Callers \ {c} : calls[o].at = "executed" /\ calls[o].case_id = case_id

\* lines 162-167: SELECT case_id ... ; exists = cursor.fetchone() is not None
SelectExists(c) ==
    /\ calls[c].at = "start"
    /\ calls' = [calls EXCEPT ![c].at = "selected",
                              ![c].exists = RowExists(bidding_cases, calls[c].case_id)]
    /\ UNCHANGED bidding_cases
    /\ ConcurrentFrame

\* lines 169-190: cursor.execute(UPDATE ...)
ExecuteUpdate(c) ==
    /\ calls[c].at = "selected"
    /\ calls[c].exists
    /\ ~WriteLocked(c, calls[c].case_id)
    /\ calls' = [calls EXCEPT ![c].at = "executed", ![c].statement = "UPDATE"]
    /\ UNCHANGED bidding_cases
    /\ ConcurrentFrame

\* lines 192-203: cursor.execute(INSERT ...), no row of the id being there
ExecuteInsert(c) ==
    /\ calls[c].at = "selected"
    /\ ~calls[c].exists
    /\ ~WriteLocked(c, calls[c].case_id)
    /\ ~RowExists(bidding_cases, calls[c].case_id)
    /\ calls' = [calls EXCEPT ![c].at = "executed", ![c].statement = "INSERT"]
    /\ UNCHANGED bidding_cases
    /\ ConcurrentFrame

\* lines 192-203: cursor.execute(INSERT ...) of an id another call has inserted since the
\* SELECT: psycopg2 raises UniqueViolation, get_connection rolls back and raises again
InsertRaises(c) ==
    /\ calls[c].at = "selected"
    /\ ~calls[c].exists
    /\ ~WriteLocked(c, calls[c].case_id)
    /\ RowExists(bidding_cases, calls[c].case_id)
    /\ calls' = [calls EXCEPT ![c].at = "raised", ![c].statement = "INSERT"]
    /\ UNCHANGED bidding_cases
    /\ ConcurrentFrame

\* lines 191 and 204, and conn.commit() of get_cursor: the write is committed and the call
\* returns
CommitAndReturn(c) ==
    /\ calls[c].at = "executed"
    /\ bidding_cases' =
          IF calls[c].statement = "INSERT"
          THEN Append(bidding_cases,
                      NewRow(bidding_cases, calls[c].case_id, calls[c].case_data))
          ELSE UpdateRows(bidding_cases, calls[c].case_id, calls[c].case_data)
    /\ calls' = [calls EXCEPT ![c].at = "returned",
                              ![c].result = Some(<<TRUE, calls[c].statement = "INSERT">>)]
    /\ ConcurrentFrame

NextConcurrent ==
    \/ \E c \in Callers : SelectExists(c)
    \/ \E c \in Callers : ExecuteUpdate(c)
    \/ \E c \in Callers : ExecuteInsert(c)
    \/ \E c \in Callers : InsertRaises(c)
    \/ \E c \in Callers : CommitAndReturn(c)

SpecConcurrent == InitConcurrent /\ [][NextConcurrent]_vars

----------------------------------------------------------------------------
(* Properties of concurrent upserts *)

\* both calls are over, and they were for one case_id that had no row when they started
BothDoneForAbsentCase ==
    /\ pc = "concurrent"
    /\ \A c \in Callers : calls[c].at \in {"returned", "raised"}
    /\ calls[1].case_id = calls[2].case_id
    /\ ~RowExists(calls[1].before, calls[1].case_id)

\* C30: two concurrent upsert_bidding_case calls for one case_id that had no row never
\* both take the INSERT branch: exactly one returns is_new_record = True, the other
\* updates the row, neither raises, and the table ends with exactly one row of the case_id
C30_ConcurrentUpsertsInsertOnce ==
    BothDoneForAbsentCase =>
        /\ \A c \in Callers : calls[c].at = "returned"
        /\ Cardinality({c \in Callers : calls[c].statement = "INSERT"}) = 1
        /\ Cardinality({c \in Callers : calls[c].result = Some(<<TRUE, TRUE>>)}) = 1
        /\ Cardinality({c \in Callers : calls[c].statement = "UPDATE"}) = 1
        /\ Cardinality(RowsOf(bidding_cases, calls[1].case_id)) = 1

----------------------------------------------------------------------------
(* LLM inference runs: main of src/dags/llm.py and                          *)
(* LLMInferenceService.run_inference_batch                                  *)
(*                                                                          *)
(* A row of bidding_cases is here [case_id, today, is_eligible_to_bid,      *)
(* eligibility_reason, eligibility_details]; today says DATE(created_at) is *)
(* the day of the run.  The rows are in the order ORDER BY created_at DESC. *)

\* `if case.get('is_eligible_to_bid') == False` of the service,
\* `existing_result[0] is not None and existing_result[0] == False` of main
SkipsEveryJudgedCase(verdict) == verdict # None
SkipsCase(verdict) == verdict = Some(FALSE)

\* WHERE DATE(created_at) = today ORDER BY created_at DESC
TodaysCases(table) == SelectSeq(table, LAMBDA r : r.today)

\* UPDATE bidding_cases SET is_eligible_to_bid = %s, eligibility_reason = %s,
\* eligibility_details = %s WHERE case_id = %s
SetVerdict(table, case_id, is_eligible) ==
    [i \in 1..Len(table) |->
        IF table[i].case_id = case_id
        THEN [table[i] EXCEPT !.is_eligible_to_bid = Some(is_eligible),
                              !.eligibility_reason = Some("reason of this run"),
                              !.eligibility_details = Some("details of this run")]
        ELSE table[i]]

\* is_eligible_to_bid of the row of case_id
VerdictOf(table, case_id) ==
    table[CHOOSE i \in 1..Len(table) : table[i].case_id = case_id].is_eligible_to_bid

\* the number of cases in the table
MaxCases == 3

\* a row before the run: not judged, or judged by an earlier run
CaseRows(case_id) ==
    {[case_id |-> case_id, today |-> t, is_eligible_to_bid |-> v,
      eligibility_reason |-> IF v = None THEN None ELSE Some("earlier reason"),
      eligibility_details |-> IF v = None THEN None ELSE Some("earlier details")] :
        t \in BOOLEAN, v \in {None, Some(TRUE), Some(FALSE)}}

InferenceTables ==
    {t \in [1..MaxCases -> UNION {CaseRows(k) : k \in 1..MaxCases}] :
        \A i \in 1..MaxCases : t[i].case_id = i}

InitInference ==
    /\ pc \in {"main", "service"}
    /\ bidding_cases \in InferenceTables
    /\ cases = <<>>
    /\ attempted = {}
    /\ read_verdict = <<>>
    /\ outcome = <<>>
    /\ input = NoCell
    /\ result = None
    /\ row = <<>> /\ built = <<>> /\ batch = <<>> /\ row_i = 0 /\ db = <<>>
    /\ aborted = None
    /\ QualIdle
    /\ stats = NoStats
    /\ tables = <<>> /\ hashseed = 0 /\ queue = <<>> /\ outputs = <<>>
    /\ last_call = [op |-> "none"] /\ extracted = {} /\ calls = <<>>
    /\ cookies = <<>> /\ page_url = <<>> /\ context_cookies = <<>>

InferenceFrame ==
    /\ UNCHANGED <<cell, qualifications, summary, record, saved, line, line_num, parsed>>
    /\ UNCHANGED <<input, result, row, built, batch, row_i, db, aborted, stats>>
    /\ UNCHANGED <<tables, hashseed, queue, outputs, last_call, extracted, calls, cookies,
                   page_url, context_cookies>>

\* llm.py lines 94-121: the cases of today are selected, whatever their verdict
MainSelect ==
    /\ pc = "main"
    /\ cases' = [k \in 1..Len(TodaysCases(bidding_cases)) |->
                    TodaysCases(bidding_cases)[k].case_id]
    /\ pc' = IF TodaysCases(bidding_cases) = <<>> THEN "inference_done" ELSE "main_loop"
    /\ UNCHANGED <<bidding_cases, attempted, read_verdict, outcome>>
    /\ InferenceFrame

\* llm.py lines 133-146: the verdict of the case is read, and it is False
MainSkip ==
    /\ pc = "main_loop"
    /\ cases # <<>>
    /\ SkipsCase(VerdictOf(bidding_cases, Head(cases)))
    /\ read_verdict' = Append(read_verdict,
            [case_id |-> Head(cases), verdict |-> VerdictOf(bidding_cases, Head(cases))])
    /\ outcome' = Append(outcome, [case_id |-> Head(cases), what |-> "skipped"])
    /\ cases' = Tail(cases)
    /\ UNCHANGED <<pc, bidding_cases, attempted>>
    /\ InferenceFrame

\* llm.py lines 133-169: the verdict read is not False; the LLM is called and its answer
\* is written to the row
MainJudge ==
    /\ pc = "main_loop"
    /\ cases # <<>>
    /\ ~SkipsCase(VerdictOf(bidding_cases, Head(cases)))
    /\ read_verdict' = Append(read_verdict,
            [case_id |-> Head(cases), verdict |-> VerdictOf(bidding_cases, Head(cases))])
    /\ attempted' = attempted \cup {Head(cases)}
    /\ \E is_eligible \in BOOLEAN :
         bidding_cases' = SetVerdict(bidding_cases, Head(cases), is_eligible)
    /\ outcome' = Append(outcome, [case_id |-> Head(cases), what |-> "judged"])
    /\ cases' = Tail(cases)
    /\ UNCHANGED pc
    /\ InferenceFrame

\* llm.py lines 152 and 178-181: analyze_bid_eligibility raises, the row is left as it is
MainJudgeFails ==
    /\ pc = "main_loop"
    /\ cases # <<>>
    /\ ~SkipsCase(VerdictOf(bidding_cases, Head(cases)))
    /\ read_verdict' = Append(read_verdict,
            [case_id |-> Head(cases), verdict |-> VerdictOf(bidding_cases, Head(cases))])
    /\ attempted' = attempted \cup {Head(cases)}
    /\ outcome' = Append(outcome, [case_id |-> Head(cases), what |-> "failed"])
    /\ cases' = Tail(cases)
    /\ UNCHANGED <<pc, bidding_cases>>
    /\ InferenceFrame

\* _get_cases_for_inference(limit): the first limit cases of today are read with their
\* verdict, and those whose verdict is False are left out
ServiceSelect ==
    /\ pc = "service"
    /\ \E limit \in 1..MaxLimit :
         \E rows \in {Limit(TodaysCases(bidding_cases), limit)} :
            /\ read_verdict' = [k \in 1..Len(rows) |->
                    [case_id |-> rows[k].case_id, verdict |-> rows[k].is_eligible_to_bid]]
            /\ outcome' = [k \in 1..Len(SelectSeq(rows, LAMBDA r : SkipsCase(r.is_eligible_to_bid))) |->
                    [case_id |-> SelectSeq(rows, LAMBDA r : SkipsCase(r.is_eligible_to_bid))[k].case_id,
                     what |-> "skipped"]]
            /\ cases' = [k \in 1..Len(SelectSeq(rows, LAMBDA r : ~SkipsCase(r.is_eligible_to_bid))) |->
                    SelectSeq(rows, LAMBDA r : ~SkipsCase(r.is_eligible_to_bid))[k].case_id]
    /\ pc' = "service_loop"
    /\ UNCHANGED <<bidding_cases, attempted>>
    /\ InferenceFrame

\* run_inference_batch lines 126-146: _run_case_inference calls the LLM and
\* _update_case_inference writes its answer to the row
ServiceJudge ==
    /\ pc = "service_loop"
    /\ cases # <<>>
    /\ attempted' = attempted \cup {Head(cases)}
    /\ \E is_eligible \in BOOLEAN :
         bidding_cases' = SetVerdict(bidding_cases, Head(cases), is_eligible)
    /\ outcome' = Append(outcome, [case_id |-> Head(cases), what |-> "judged"])
    /\ cases' = Tail(cases)
    /\ UNCHANGED <<pc, read_verdict>>
    /\ InferenceFrame

\* run_inference_batch lines 150-151: _run_case_inference has caught an exception of the
\* LLM call and returned None
ServiceJudgeFails ==
    /\ pc = "service_loop"
    /\ cases # <<>>
    /\ attempted' = attempted \cup {Head(cases)}
    /\ outcome' = Append(outcome, [case_id |-> Head(cases), what |-> "failed"])
    /\ cases' = Tail(cases)
    /\ UNCHANGED <<pc, bidding_cases, read_verdict>>
    /\ InferenceFrame

\* the loop is through the cases: the run ends
InferenceEnds ==
    /\ pc \in {"main_loop", "service_loop"}
    /\ cases = <<>>
    /\ pc' = "inference_done"
    /\ UNCHANGED <<bidding_cases, cases, attempted, read_verdict, outcome>>
    /\ InferenceFrame

NextInference ==
    \/ MainSelect
    \/ MainSkip
    \/ MainJudge
    \/ MainJudgeFails
    \/ ServiceSelect
    \/ ServiceJudge
    \/ ServiceJudgeFails
    \/ InferenceEnds

SpecInference == InitInference /\ [][NextInference]_vars

----------------------------------------------------------------------------
(* Properties of the inference runs *)

\* the row of case_id holds the verdict, reason and details of the earlier run
KeepsEarlierVerdict(case_id) ==
    \E i \in 1..Len(bidding_cases) :
        /\ bidding_cases[i].case_id = case_id
        /\ bidding_cases[i].is_eligible_to_bid = Some(FALSE)
        /\ bidding_cases[i].eligibility_reason = Some("earlier reason")
        /\ bidding_cases[i].eligibility_details = Some("earlier details")

\* C27: an inference run never calls the LLM for a case whose is_eligible_to_bid was
\* False when the run read it, and leaves the verdict, reason and details of that case
\* as they were; by the end of the run the LLM has been called for every case the run
\* read with verdict True or without verdict
C27_IneligibleCasesAreLeftAlone ==
    pc \in {"main_loop", "service_loop", "inference_done"} =>
        \A k \in 1..Len(read_verdict) :
            IF read_verdict[k].verdict = Some(FALSE)
            THEN /\ read_verdict[k].case_id \notin attempted
                 /\ KeepsEarlierVerdict(read_verdict[k].case_id)
                 /\ \A j \in 1..Len(outcome) :
                      outcome[j].case_id = read_verdict[k].case_id
                          => outcome[j].what = "skipped"
            ELSE pc = "inference_done" => read_verdict[k].case_id \in attempted

\* a finished run that has skipped an ineligible case and judged an eligible one again
C27_Witness ==
    /\ pc = "inference_done"
    /\ \E k \in 1..Len(read_verdict) : read_verdict[k].verdict = Some(FALSE)
    /\ \E k \in 1..Len(read_verdict) :
         /\ read_verdict[k].verdict = Some(TRUE)
         /\ VerdictOf(bidding_cases, read_verdict[k].case_id) = Some(FALSE)

----------------------------------------------------------------------------
(* Repeated runs of LLMExtractionService.process_cases_with_llm             *)
(* (src/dags/processing/llm_extraction_service.py)                          *)
(*                                                                          *)
(* last_call holds the limit every run is called with; attempted is the set *)
(* of the cases _process_case_documents has been called for in any run.     *)

\* the rows of a table before the first run: with or without documents, with or without
\* LLM data; row i was inserted as the i-th
StoredRows(i) ==
    {[case_id |-> i, case_name |-> Some("name"),
      document_directory |-> IF docs THEN Some("dir") ELSE None,
      document_count |-> IF docs THEN Some(2) ELSE None,
      llm_extracted_data |-> llm,
      created_at |-> i] : docs \in BOOLEAN, llm \in {None, Some("{...}")}}

ExtractionTables ==
    {t \in [1..MaxCases -> UNION {StoredRows(i) : i \in 1..MaxCases}] :
        \A i \in 1..MaxCases : t[i].case_id = i}

InitExtraction ==
    /\ pc = "extraction_idle"
    /\ bidding_cases \in ExtractionTables
    /\ \E limit \in 1..MaxLimit :
         last_call = [op |-> "process_cases_with_llm", limit |-> limit]
    /\ cases = <<>>
    /\ attempted = {}
    /\ extracted = {}
    /\ input = NoCell
    /\ result = None
    /\ BuildIdle
    /\ QualIdle
    /\ stats = NoStats
    /\ tables = <<>> /\ hashseed = 0 /\ queue = <<>> /\ outputs = <<>>
    /\ calls = <<>> /\ cookies = <<>> /\ page_url = <<>> /\ context_cookies = <<>>
    /\ read_verdict = <<>>

ExtractionFrame ==
    /\ UNCHANGED <<cell, qualifications, summary, record, saved, line, line_num, parsed>>
    /\ UNCHANGED <<input, result, buildVars, stats>>
    /\ UNCHANGED <<tables, hashseed, queue, outputs, last_call, calls, cookies, page_url,
                   context_cookies, read_verdict>>

\* line 316: cases = self.case_repo.find_unprocessed_cases(limit)
StartExtractionRun ==
    /\ pc = "extraction_idle"
    /\ cases' = find_unprocessed_cases(bidding_cases, last_call.limit)
    /\ pc' = "extraction_loop"
    /\ UNCHANGED <<bidding_cases, attempted, extracted>>
    /\ ExtractionFrame

\* lines 319-332: _process_case_documents returns the extracted data and
\* update_llm_extraction stores it
ExtractCase ==
    /\ pc = "extraction_loop"
    /\ cases # <<>>
    /\ attempted' = attempted \cup {Head(cases).case_id}
    /\ bidding_cases' = SetExtraction(bidding_cases, Head(cases).case_id, "{...}")
    /\ extracted' = extracted \cup {Head(cases).case_id}
    /\ cases' = Tail(cases)
    /\ UNCHANGED pc
    /\ ExtractionFrame

\* lines 333-344: _process_case_documents returns None (no directory, no document, the LLM
\* call or its answer fails) or raises; the row keeps llm_extracted_data NULL
ExtractCaseFails ==
    /\ pc = "extraction_loop"
    /\ cases # <<>>
    /\ attempted' = attempted \cup {Head(cases).case_id}
    /\ cases' = Tail(cases)
    /\ UNCHANGED <<pc, bidding_cases, extracted>>
    /\ ExtractionFrame

\* lines 346-355: the run returns; the next run of the DAG starts from here
EndExtractionRun ==
    /\ pc = "extraction_loop"
    /\ cases = <<>>
    /\ pc' = "extraction_idle"
    /\ UNCHANGED <<bidding_cases, cases, attempted, extracted>>
    /\ ExtractionFrame

NextExtraction ==
    \/ StartExtractionRun
    \/ ExtractCase
    \/ ExtractCaseFails
    \/ EndExtractionRun

\* the DAG is run again and again, and a run goes on to its end; nothing makes an
\* extraction succeed
SpecExtractionRuns ==
    InitExtraction /\ [][NextExtraction]_vars /\ WF_vars(NextExtraction)

----------------------------------------------------------------------------
(* Properties of the extraction runs *)

\* C29: under repeated runs of process_cases_with_llm with a fixed limit, every case
\* that has documents and no LLM data is eventually selected and attempted, even when the
\* extraction of other cases fails in every run
C29_EveryUnprocessedCaseIsAttempted ==
    \A i \in 1..MaxCases :
        (pc = "extraction_idle" /\ IsUnprocessed(bidding_cases[i]))
            ~> (bidding_cases[i].case_id \in attempted)

----------------------------------------------------------------------------
(* Workers that process rows with one QualificationParser and one           *)
(* DataNormalizer (src/dags/preprocessor.py)                                *)
(*                                                                          *)
(* tables is what the two objects hold: the dicts their __init__ builds.    *)
(* The workers share the objects and the process, hence the hash seed.      *)

\* self.qualification_patterns, self.category_mapping, self.level_mapping of
\* QualificationParser.__init__ and self.business_code_map of DataNormalizer.__init__
ConstructedTables ==
    [qualification_patterns |-> qualification_patterns,
     category_mapping |-> category_mapping,
     level_mapping |-> level_mapping,
     business_code_map |-> business_code_map]

\* the tables after a row has been processed: no method of the two classes assigns an
\* attribute or changes a dict
TablesWithRowCached(t, r) ==
    [t EXCEPT !.category_mapping = @ \cup {<<r["anken_id"].s, "seen">>}]
TablesAfter(t, r) == t

RECURSIVE Reverse(_)
Reverse(s) == IF s = <<>> THEN <<>> ELSE Append(Reverse(Tail(s)), Head(s))

\* list(set(codes)) in a process of hash seed `seed`: an order the seed fixes
SeededOrder(codes, seed) ==
    IF seed = 1 THEN CHOOSE f \in ListOfSet(codes) : TRUE
    ELSE Reverse(CHOOSE f \in ListOfSet(codes) : TRUE)

\* the Requirements, the Summary and the normalized fields the loop body of
\* process_csv_data makes of a row (lines 1235-1251); the dates of the rows have
\* four-digit years, which strftime writes alike everywhere
RowOutput(r, seed) ==
    LET quals == extract_qualifications(qualification_text(r))
    IN  [ requirements |-> quals,
          summary |-> get_qualification_summary(quals,
                          SeededOrder(RequiredCodeList(quals, "category_normalized"), seed),
                          SeededOrder(RequiredCodeList(quals, "level_normalized"), seed)),
          normalized |-> normalize_basic_data(r, TRUE,
                          SeededOrder(business_types(CellOf(r, "gyoushu")), seed)) ]

\* the number of rows a worker is given
MaxQueue == 2

Workers == 1..2

\* the rows of the workers: every column filled, only the qualification and business
\* columns filled, and no column but the case id
WorkerRows ==
    { [col \in present \cup {"anken_id"} |-> [na |-> FALSE, s |-> ColumnText(col)]] :
        present \in {ColumnNames, {"nyuusatsu_shikaku", "gyoushu"}, {}} }

RowQueues == UNION {[1..n -> WorkerRows] : n \in 0..MaxQueue}

InitWorkers ==
    /\ pc = "workers"
    /\ tables = ConstructedTables
    /\ hashseed \in {1, 2}
    /\ queue \in [Workers -> RowQueues]
    /\ outputs = [w \in Workers |-> <<>>]
    /\ input = NoCell
    /\ result = None
    /\ BuildIdle
    /\ QualIdle
    /\ stats = NoStats
    /\ last_call = [op |-> "none"] /\ extracted = {} /\ calls = <<>>
    /\ cookies = <<>> /\ page_url = <<>> /\ context_cookies = <<>>
    /\ cases = <<>> /\ attempted = {} /\ read_verdict = <<>> /\ bidding_cases = <<>>

\* a worker takes its next row through extract_qualifications,
\* get_qualification_summary and normalize_basic_data
ProcessRow(w) ==
    /\ pc = "workers"
    /\ queue[w] # <<>>
    /\ \E out \in {RowOutput(Head(queue[w]), hashseed)} :
         outputs' = [outputs EXCEPT ![w] = Append(@, [row |-> Head(queue[w]), out |-> out])]
    /\ tables' = TablesAfter(tables, Head(queue[w]))
    /\ queue' = [queue EXCEPT ![w] = Tail(@)]
    /\ UNCHANGED <<pc, cell, qualifications, summary, record, saved, line, line_num, parsed>>
    /\ UNCHANGED <<input, result, buildVars, stats, hashseed>>
    /\ UNCHANGED <<last_call, extracted, calls, cookies, page_url, context_cookies, cases,
                   attempted, read_verdict, bidding_cases>>

NextWorkers == \E w \in Workers : ProcessRow(w)

SpecWorkers == InitWorkers /\ [][NextWorkers]_vars

----------------------------------------------------------------------------
(* Properties of the shared parser and normalizer *)

====
